---- MODULE Spec2Model ----
(***************************************************************************)
(* Field-lineage registry (src/lineage/field_tracker.py) and the lineage   *)
(* tools built on it (src/main.py).                                        *)
(*                                                                         *)
(* Python str values are sequences of one-character strings, so that       *)
(* formatting, upper-casing, splitting and the two regular expressions are *)
(* computed character by character.  Python objects that can be reached    *)
(* through more than one reference (the record dicts and the source lists) *)
(* live in `heap`, addressed by reference.                                 *)
(***************************************************************************)
EXTENDS Naturals, Sequences, FiniteSets

VARIABLES lineage_db, heap, call, ret, latest, connections, sqlite, tasks

vars == <<lineage_db, heap, call, ret, latest, connections, sqlite, tasks>>

(* the lineage registry, its objects and its history *)
registry == <<lineage_db, heap, latest>>

(* the connection cache and the SQLite library behind it *)
database == <<connections, sqlite>>

(***************************************************************************)
(* Characters and str methods                                              *)
(***************************************************************************)

LowerCase ==
    <<"a", "b", "c", "d", "e", "f", "g", "h", "i", "j", "k", "l", "m",
      "n", "o", "p", "q", "r", "s", "t", "u", "v", "w", "x", "y", "z">>

UpperCase ==
    <<"A", "B", "C", "D", "E", "F", "G", "H", "I", "J", "K", "L", "M",
      "N", "O", "P", "Q", "R", "S", "T", "U", "V", "W", "X", "Y", "Z">>

Digits == {"0", "1", "2", "3", "4", "5", "6", "7", "8", "9"}

Range(s) == {s[i] : i \in 1..Len(s)}

(* the characters str.strip() removes and the pattern \s matches *)
IsSpace(c) == c \in {" ", "\t", "\n"}

WordChars == Range(LowerCase) \cup Range(UpperCase) \cup Digits \cup {"_"}

(* the characters the pattern \w matches *)
IsWord(c) == c \in WordChars

UpperChar(c) ==
    IF c \in Range(LowerCase)
    THEN UpperCase[CHOOSE i \in 1..Len(LowerCase) : LowerCase[i] = c]
    ELSE c

(* a case folding that leaves the text as it is *)
upper_keeps_case(s) == s

(* str.upper() *)
upper(s) == [i \in 1..Len(s) |-> UpperChar(s[i])]

Min(S) == CHOOSE x \in S : \A y \in S : x <= y

Max(S) == CHOOSE x \in S : \A y \in S : x >= y

(* the text s continues with lit at position i *)
StartsAt(s, i, lit) ==
    /\ i >= 1
    /\ i + Len(lit) - 1 <= Len(s)
    /\ SubSeq(s, i, i + Len(lit) - 1) = lit

(* str.strip() *)
strip(s) ==
    LET keep == {i \in 1..Len(s) : ~IsSpace(s[i])}
    IN  IF keep = {} THEN <<>> ELSE SubSeq(s, Min(keep), Max(keep))

(* str.split(c) for a one-character separator c: never an empty list *)
RECURSIVE split(_, _)
split(s, c) ==
    LET at == {i \in 1..Len(s) : s[i] = c}
    IN  IF at = {}
        THEN <<s>>
        ELSE <<SubSeq(s, 1, Min(at) - 1)>>
                 \o split(SubSeq(s, Min(at) + 1, Len(s)), c)

(* sep.join(parts) *)
RECURSIVE join(_, _)
join(sep, parts) ==
    IF parts = <<>> THEN <<>>
    ELSE IF Len(parts) = 1 THEN parts[1]
    ELSE parts[1] \o sep \o join(sep, Tail(parts))

(* ', ' *)
CommaSpace == <<",", " ">>

(***************************************************************************)
(* The regular expressions of FieldTracker.analyze_query_lineage           *)
(***************************************************************************)

(* 'FROM' *)
kw_FROM == <<"F", "R", "O", "M">>

(* 'JOIN' *)
kw_JOIN == <<"J", "O", "I", "N">>

(* 'SELECT' *)
kw_SELECT == <<"S", "E", "L", "E", "C", "T">>

(* length of the longest run of \s characters starting at position i *)
RECURSIVE SpaceRun(_, _)
SpaceRun(s, i) ==
    IF i <= Len(s) /\ IsSpace(s[i]) THEN 1 + SpaceRun(s, i + 1) ELSE 0

(* length of the longest run of \w characters starting at position i *)
RECURSIVE WordRun(_, _)
WordRun(s, i) ==
    IF i <= Len(s) /\ IsWord(s[i]) THEN 1 + WordRun(s, i + 1) ELSE 0

(* kw\s+(\w+) tried at position i.  \s+ and \w+ are greedy and the two     *)
(* classes are disjoint, so only the full runs can match.                  *)
KeywordWordAt(s, i, kw) ==
    LET sp == SpaceRun(s, i + Len(kw))
        wd == WordRun(s, i + Len(kw) + sp)
    IN  [ok    |-> StartsAt(s, i, kw) /\ sp >= 1 /\ wd >= 1,
         group |-> SubSeq(s, i + Len(kw) + sp, i + Len(kw) + sp + wd - 1),
         end   |-> i + Len(kw) + sp + wd]

(* FROM\s+(\w+)|JOIN\s+(\w+) tried at position i: the first alternative    *)
(* that matches; the group of the other alternative is the empty string.   *)
TablePatternAt(s, i) ==
    LET f == KeywordWordAt(s, i, kw_FROM)
        j == KeywordWordAt(s, i, kw_JOIN)
    IN  IF f.ok THEN [ok |-> TRUE, groups |-> <<f.group, <<>>>>, end |-> f.end]
        ELSE IF j.ok THEN [ok |-> TRUE, groups |-> <<<<>>, j.group>>, end |-> j.end]
        ELSE [ok |-> FALSE, groups |-> <<<<>>, <<>>>>, end |-> i + 1]

(* a scan that resumes one character after the start of a match, so that   *)
(* matches may overlap                                                     *)
RECURSIVE findall_tables_overlapping(_, _)
findall_tables_overlapping(s, i) ==
    IF i > Len(s) THEN <<>>
    ELSE LET m == TablePatternAt(s, i)
         IN  IF m.ok THEN <<m.groups>> \o findall_tables_overlapping(s, i + 1)
             ELSE findall_tables_overlapping(s, i + 1)

(* re.findall(r'FROM\s+(\w+)|JOIN\s+(\w+)', s) from position i on: the     *)
(* leftmost match, then the scan resumes where that match ended.           *)
RECURSIVE findall_tables(_, _)
findall_tables(s, i) ==
    IF i > Len(s) THEN <<>>
    ELSE LET m == TablePatternAt(s, i)
         IN  IF m.ok THEN <<m.groups>> \o findall_tables(s, m.end)
             ELSE findall_tables(s, i + 1)

(* \s+FROM tried at position q: the greedy \s+ must take the whole run *)
SpaceFromAt(s, q) ==
    SpaceRun(s, q) >= 1 /\ StartsAt(s, q + SpaceRun(s, q), kw_FROM)

(* the pattern with a greedy group, which ends at the last \s+FROM *)
FieldPatternAt_greedy(s, i) ==
    LET run   == SpaceRun(s, i + Len(kw_SELECT))
        Qs(r) == {q \in (i + Len(kw_SELECT) + r)..Len(s) : SpaceFromAt(s, q)}
        Rs    == {r \in 1..run : Qs(r) # {}}
    IN  IF StartsAt(s, i, kw_SELECT) /\ Rs # {}
        THEN LET r == Max(Rs)
                 q == Max(Qs(r))
             IN  [ok    |-> TRUE,
                  group |-> SubSeq(s, i + Len(kw_SELECT) + r, q - 1),
                  end   |-> q + SpaceRun(s, q) + Len(kw_FROM)]
        ELSE [ok |-> FALSE, group |-> <<>>, end |-> i + 1]

(* SELECT\s+(.*?)\s+FROM with DOTALL tried at position i.  The first \s+   *)
(* is greedy and gives characters back one at a time (r, largest first);   *)
(* for each r the lazy group ends at the first q where \s+FROM matches.    *)
FieldPatternAt(s, i) ==
    LET run   == SpaceRun(s, i + Len(kw_SELECT))
        Qs(r) == {q \in (i + Len(kw_SELECT) + r)..Len(s) : SpaceFromAt(s, q)}
        Rs    == {r \in 1..run : Qs(r) # {}}
    IN  IF StartsAt(s, i, kw_SELECT) /\ Rs # {}
        THEN LET r == Max(Rs)
                 q == Min(Qs(r))
             IN  [ok    |-> TRUE,
                  group |-> SubSeq(s, i + Len(kw_SELECT) + r, q - 1),
                  end   |-> q + SpaceRun(s, q) + Len(kw_FROM)]
        ELSE [ok |-> FALSE, group |-> <<>>, end |-> i + 1]

(* re.findall(r'SELECT\s+(.*?)\s+FROM', s, re.DOTALL) from position i on *)
RECURSIVE findall_fields(_, _)
findall_fields(s, i) ==
    IF i > Len(s) THEN <<>>
    ELSE LET m == FieldPatternAt(s, i)
         IN  IF m.ok THEN <<m.group>> \o findall_fields(s, m.end)
             ELSE findall_fields(s, i + 1)

(* table_list = [t[0] or t[1] for t in tables] *)
table_list_of(tables) ==
    [i \in 1..Len(tables) |->
        IF tables[i][1] # <<>> THEN tables[i][1] ELSE tables[i][2]]

(* field_list = [f.strip() for f in fields[0].split(',')] if fields else [] *)
field_list_of(fields) ==
    IF fields # <<>>
    THEN LET pieces == split(fields[1], ",")
         IN  [i \in 1..Len(pieces) |-> strip(pieces[i])]
    ELSE <<>>

(***************************************************************************)
(* Python values and the object heap                                       *)
(***************************************************************************)

PyNone == [t |-> "None"]

PyStr(s) == [t |-> "str", s |-> s]

(* a reference to the heap object at address a *)
PyRef(a) == [t |-> "ref", addr |-> a]

(* an exception propagating out of a call; msg is str(e) *)
PyRaise(msg) == [t |-> "raise", msg |-> msg]

(* a freshly built dict that only its receiver refers to *)
PyDict(items) == [t |-> "dict", items |-> items]

EmptyMap == <<>>

Put(f, k, v) == [x \in DOMAIN f \cup {k} |-> IF x = k THEN v ELSE f[x]]

Restrict(f, S) == IF S = {} THEN EmptyMap ELSE [x \in S |-> f[x]]

ListObj(elems) == [type |-> "list", elems |-> elems]

DictObj(items) == [type |-> "dict", items |-> items]

(* object allocation: an address no live object has *)
NewAddr(h, tag) ==
    <<tag, Min({n \in 0..Cardinality(DOMAIN h) : <<tag, n>> \notin DOMAIN h})>>

(* the addresses a Python value refers to directly *)
RefsOf(v) ==
    IF v.t = "ref" THEN {v.addr}
    ELSE IF v.t = "dict" THEN {v.items[k] : k \in DOMAIN v.items}
    ELSE {}

(* reference counting: what is left of h when only the registry, the      *)
(* caller's last arguments and the last returned value hold references     *)
Collect(h, db, args, v) ==
    LET roots == ({db[k] : k \in DOMAIN db} \cup Range(args) \cup RefsOf(v))
                     \cap DOMAIN h
        inner == UNION {{h[a].items.source_tables, h[a].items.source_fields}
                           \cap DOMAIN h : a \in {r \in roots : h[r].type = "dict"}}
    IN  Restrict(h, roots \cup inner)

(* Names of objects are not observable (the code never asks for id()):    *)
(* the live objects are renamed to the least names, keeping their order.   *)
Renaming(addrs) ==
    [a \in addrs |->
        <<a[1], Cardinality({b \in addrs : b[1] = a[1] /\ b[2] < a[2]})>>]

RenameObj(obj, name) ==
    IF obj.type = "dict"
    THEN DictObj([obj.items EXCEPT !.source_tables = name[@],
                                   !.source_fields = name[@]])
    ELSE obj

RenameHeap(h, name) ==
    IF DOMAIN h = {} THEN EmptyMap
    ELSE [n \in {name[a] : a \in DOMAIN h} |->
             RenameObj(h[CHOOSE a \in DOMAIN h : name[a] = n], name)]

RenameMap(db, name) == [k \in DOMAIN db |-> name[db[k]]]

(***************************************************************************)
(* class FieldTracker                                                      *)
(***************************************************************************)

(* a key formatted without the period *)
KeyOf_no_separator(table, field) == table \o field

(* f"{table}.{field}" *)
KeyOf(table, field) == table \o <<".">> \o field

(* the dict literal of add_lineage *)
LineageDict(target_table, target_field, source_tables, source_fields, join_condition) ==
    DictObj([source_tables  |-> source_tables,
             source_fields  |-> source_fields,
             join_condition |-> join_condition,
             target_table   |-> target_table,
             target_field   |-> target_field])

(* self.lineage_db[key] = value, value a new object *)
StoreNew(db, h, key, value) ==
    LET store(addr) == [db |-> Put(db, key, addr), heap |-> Put(h, addr, value)]
    IN  store(NewAddr(h, <<key, "dict">>))

(* add_lineage that does not store the join condition it is given *)
add_lineage_drops_join(db, h, target_table, target_field, source_tables, source_fields, join_condition) ==
    StoreNew(db, h, KeyOf(target_table, target_field),
             LineageDict(target_table, target_field, source_tables,
                         source_fields, <<>>))

(* add_lineage as dict.setdefault: a key already present keeps its record *)
add_lineage_keeps_existing(db, h, target_table, target_field, source_tables, source_fields, join_condition) ==
    IF KeyOf(target_table, target_field) \in DOMAIN db
    THEN [db |-> db, heap |-> h]
    ELSE StoreNew(db, h, KeyOf(target_table, target_field),
                  LineageDict(target_table, target_field, source_tables,
                              source_fields, join_condition))

(* add_lineage with the two source arguments stored under each other's name *)
add_lineage_swaps_sources(db, h, target_table, target_field, source_tables, source_fields, join_condition) ==
    StoreNew(db, h, KeyOf(target_table, target_field),
             LineageDict(target_table, target_field, source_fields,
                         source_tables, join_condition))

(* add_lineage that starts from an empty dict: every other key is lost *)
add_lineage_evicts(db, h, target_table, target_field, source_tables, source_fields, join_condition) ==
    StoreNew(EmptyMap, h, KeyOf(target_table, target_field),
             LineageDict(target_table, target_field, source_tables,
                         source_fields, join_condition))

(* add_lineage that binds every key of the dict to the new record *)
add_lineage_rebinds_all(db, h, target_table, target_field, source_tables, source_fields, join_condition) ==
    LET rebind(r) ==
            [db   |-> [k \in DOMAIN r.db |->
                          r.db[KeyOf(target_table, target_field)]],
             heap |-> r.heap]
    IN  rebind(StoreNew(db, h, KeyOf(target_table, target_field),
                        LineageDict(target_table, target_field, source_tables,
                                    source_fields, join_condition)))

(* FieldTracker.add_lineage: source_tables and source_fields are the       *)
(* addresses of the caller's list objects; the new dict refers to them.    *)
add_lineage(db, h, target_table, target_field, source_tables, source_fields, join_condition) ==
    StoreNew(db, h, KeyOf(target_table, target_field),
             LineageDict(target_table, target_field, source_tables,
                         source_fields, join_condition))

(* 'KeyError' would be raised by self.lineage_db[key]; str(e) is repr(key) *)
get_lineage_subscript(db, table, field) ==
    IF KeyOf(table, field) \in DOMAIN db
    THEN PyRef(db[KeyOf(table, field)])
    ELSE PyRaise(<<"'">> \o KeyOf(table, field) \o <<"'">>)

(* FieldTracker.get_lineage: dict.get, None for a missing key *)
get_lineage(db, table, field) ==
    IF KeyOf(table, field) \in DOMAIN db
    THEN PyRef(db[KeyOf(table, field)])
    ELSE PyNone

(* FieldTracker.get_all_lineage: dict.copy(), a new dict whose values are  *)
(* the same record objects                                                 *)
get_all_lineage(db) == PyDict(db)

(* clear_lineage that leaves the registry as it is *)
clear_lineage_keeps(db) == db

(* FieldTracker.clear_lineage *)
clear_lineage(db) == EmptyMap

(* 'list index out of range' *)
msg_index_error ==
    <<"l", "i", "s", "t", " ", "i", "n", "d", "e", "x", " ", "o", "u", "t",
      " ", "o", "f", " ", "r", "a", "n", "g", "e">>

(* analyze_query_lineage that takes fields[0] without `if fields:` *)
FieldTracker_analyze_unguarded(query) ==
    IF findall_fields(upper(query), 1) = <<>>
    THEN PyRaise(msg_index_error)
    ELSE [t      |-> "analysis",
          tables |-> table_list_of(findall_tables(upper(query), 1)),
          fields |-> field_list_of(findall_fields(upper(query), 1))]

(* FieldTracker.analyze_query_lineage(query): {"tables": ..., "fields": ...} *)
FieldTracker_analyze_query_lineage(query) ==
    [t      |-> "analysis",
     tables |-> table_list_of(findall_tables(upper(query), 1)),
     fields |-> field_list_of(findall_fields(upper(query), 1))]

(***************************************************************************)
(* The lineage tools of src/main.py                                        *)
(***************************************************************************)

(* 'Lineage added for ' *)
msg_lineage_added ==
    <<"L", "i", "n", "e", "a", "g", "e", " ", "a", "d", "d", "e", "d", " ",
      "f", "o", "r", " ">>

(* ' from ' *)
msg_from ==
    <<" ", "f", "r", "o", "m", " ">>

(* 'No lineage information found for ' *)
msg_no_lineage ==
    <<"N", "o", " ", "l", "i", "n", "e", "a", "g", "e", " ", "i", "n", "f",
      "o", "r", "m", "a", "t", "i", "o", "n", " ", "f", "o", "u", "n", "d",
      " ", "f", "o", "r", " ">>

(* 'Field Lineage for ' *)
msg_field_lineage ==
    <<"F", "i", "e", "l", "d", " ", "L", "i", "n", "e", "a", "g", "e", " ",
      "f", "o", "r", " ">>

(* 'Source Tables: ' *)
msg_source_tables ==
    <<"S", "o", "u", "r", "c", "e", " ", "T", "a", "b", "l", "e", "s", ":",
      " ">>

(* 'Source Fields: ' *)
msg_source_fields ==
    <<"S", "o", "u", "r", "c", "e", " ", "F", "i", "e", "l", "d", "s", ":",
      " ">>

(* 'Join Condition: ' *)
msg_join_condition ==
    <<"J", "o", "i", "n", " ", "C", "o", "n", "d", "i", "t", "i", "o", "n",
      ":", " ">>

(* '\nData Flow:\n' *)
msg_data_flow ==
    <<"\n", "D", "a", "t", "a", " ", "F", "l", "o", "w", ":", "\n">>

(* ' -> ' *)
msg_arrow ==
    <<" ", "-", ">", " ">>

(* 'Error tracing lineage: ' *)
msg_error_tracing ==
    <<"E", "r", "r", "o", "r", " ", "t", "r", "a", "c", "i", "n", "g", " ",
      "l", "i", "n", "e", "a", "g", "e", ":", " ">>

(* 'Query Analysis:\n' *)
msg_query_analysis ==
    <<"Q", "u", "e", "r", "y", " ", "A", "n", "a", "l", "y", "s", "i", "s",
      ":", "\n">>

(* 'Tables involved: ' *)
msg_tables_involved ==
    <<"T", "a", "b", "l", "e", "s", " ", "i", "n", "v", "o", "l", "v", "e",
      "d", ":", " ">>

(* 'Fields selected: ' *)
msg_fields_selected ==
    <<"F", "i", "e", "l", "d", "s", " ", "s", "e", "l", "e", "c", "t", "e",
      "d", ":", " ">>

(* '\nFields with tracked lineage: ' *)
msg_tracked ==
    <<"\n", "F", "i", "e", "l", "d", "s", " ", "w", "i", "t", "h", " ",
      "t", "r", "a", "c", "k", "e", "d", " ", "l", "i", "n", "e", "a", "g",
      "e", ":", " ">>

(* '\nNo tracked lineage found for fields in this query.' *)
msg_no_tracked ==
    <<"\n", "N", "o", " ", "t", "r", "a", "c", "k", "e", "d", " ", "l",
      "i", "n", "e", "a", "g", "e", " ", "f", "o", "u", "n", "d", " ", "f",
      "o", "r", " ", "f", "i", "e", "l", "d", "s", " ", "i", "n", " ", "t",
      "h", "i", "s", " ", "q", "u", "e", "r", "y", ".">>

(* 'Error analyzing query: ' *)
msg_error_analyzing ==
    <<"E", "r", "r", "o", "r", " ", "a", "n", "a", "l", "y", "z", "i", "n",
      "g", " ", "q", "u", "e", "r", "y", ":", " ">>

(* a pairing that stops after the first pair *)
zip_first_pair(xs, ys) ==
    [i \in 1..Min({1, Len(xs), Len(ys)}) |-> <<xs[i], ys[i]>>]

(* zip(xs, ys): stops at the shorter sequence *)
zip(xs, ys) ==
    [i \in 1..Min({Len(xs), Len(ys)}) |-> <<xs[i], ys[i]>>]

(* the elements of the list object a reference points to *)
Elems(h, a) == h[a].elems

(* `if lineage:` / `if not lineage:` -- None and an empty dict are false *)
Truthy(h, v) == v.t = "ref" /\ DOMAIN h[v.addr].items # {}

(* add_field_lineage: the dispatcher hands over two new list objects; the  *)
(* confirmation pairs the arguments with zip.                              *)
add_field_lineage(db, h, target_table, target_field, source_tables, source_fields, join_condition) ==
    LET key   == KeyOf(target_table, target_field)
        pairs == zip(source_tables, source_fields)
        text  == msg_lineage_added \o target_table \o <<".">>
                 \o target_field \o msg_from
                 \o join(CommaSpace,
                         [i \in 1..Len(pairs) |->
                             pairs[i][1] \o <<".">> \o pairs[i][2]])
        stored(r) == [db |-> r.db, heap |-> r.heap, ret |-> PyStr(text)]
        with_lists(st, sf) ==
            stored(add_lineage(db,
                               Put(Put(h, st, ListObj(source_tables)),
                                   sf, ListObj(source_fields)),
                               target_table, target_field, st, sf,
                               join_condition))
    IN  with_lists(NewAddr(h, <<key, "source_tables">>),
                   NewAddr(h, <<key, "source_fields">>))

(* trace_field_lineage *)
trace_field_lineage(db, h, table, field) ==
    LET lineage == get_lineage(db, table, field)
    IN  IF lineage.t = "raise"
        THEN PyStr(msg_error_tracing \o lineage.msg)
        ELSE IF ~Truthy(h, lineage)
        THEN PyStr(msg_no_lineage \o table \o <<".">> \o field)
        ELSE
        LET rec   == h[lineage.addr].items
            st    == Elems(h, rec.source_tables)
            sf    == Elems(h, rec.source_fields)
            pairs == zip(st, sf)
        IN  PyStr(msg_field_lineage \o table \o <<".">> \o field \o <<":", "\n">>
                  \o msg_source_tables \o join(CommaSpace, st) \o <<"\n">>
                  \o msg_source_fields \o join(CommaSpace, sf) \o <<"\n">>
                  \o (IF rec.join_condition # <<>>
                      THEN msg_join_condition \o rec.join_condition \o <<"\n">>
                      ELSE <<>>)
                  \o msg_data_flow
                  \o join(<<>>,
                          [i \in 1..Len(pairs) |->
                              <<" ", " ">> \o pairs[i][1] \o <<".">> \o pairs[i][2]
                              \o msg_arrow \o table \o <<".">> \o field
                              \o <<"\n">>]))

(* clean_field taken before the first period instead of after the last *)
clean_field_first(field) == strip(split(field, ".")[1])

(* clean_field = field.split('.')[-1].strip() *)
clean_field_of(field) ==
    LET parts == split(field, ".") IN strip(parts[Len(parts)])

(* the inner loop of analyze_query_lineage over analysis['fields'], from   *)
(* index j on: one entry per lookup made, in order                         *)
RECURSIVE lookups_for_table(_, _, _, _)
lookups_for_table(db, table, fields, j) ==
    IF j > Len(fields) THEN <<>>
    ELSE (IF fields[j] # <<"*">>
          THEN <<[name    |-> table \o <<".">> \o clean_field_of(fields[j]),
                  lineage |-> get_lineage(db, table, clean_field_of(fields[j]))]>>
          ELSE <<>>)
         \o lookups_for_table(db, table, fields, j + 1)

(* the outer loop over analysis['tables'], from index i on *)
RECURSIVE lookups_for_query(_, _, _, _)
lookups_for_query(db, tables, fields, i) ==
    IF i > Len(tables) THEN <<>>
    ELSE lookups_for_table(db, tables[i], fields, 1)
         \o lookups_for_query(db, tables, fields, i + 1)

(* lineage_found: the names whose lookup gave a record *)
lineage_found_of(h, lookups) ==
    LET hit == SelectSeq(lookups, LAMBDA l : Truthy(h, l.lineage))
    IN  [i \in 1..Len(hit) |-> hit[i].name]

(* analyze_query_lineage (the tool): an exception anywhere in the body     *)
(* becomes the error text                                                  *)
analyze_query_lineage(db, h, query) ==
    LET analysis == FieldTracker_analyze_query_lineage(query)
    IN  IF analysis.t = "raise"
        THEN PyStr(msg_error_analyzing \o analysis.msg)
        ELSE
        LET lookups == lookups_for_query(db, analysis.tables, analysis.fields, 1)
            raised  == SelectSeq(lookups, LAMBDA l : l.lineage.t = "raise")
            found   == lineage_found_of(h, lookups)
        IN  IF raised # <<>>
            THEN PyStr(msg_error_analyzing \o raised[1].lineage.msg)
            ELSE PyStr(msg_query_analysis
                       \o msg_tables_involved
                       \o join(CommaSpace, analysis.tables) \o <<"\n">>
                       \o msg_fields_selected
                       \o join(CommaSpace, analysis.fields) \o <<"\n">>
                       \o (IF found # <<>>
                           THEN msg_tracked \o join(CommaSpace, found)
                           ELSE msg_no_tracked))

(***************************************************************************)
(* Inputs                                                                  *)
(***************************************************************************)

(* longest source_tables / source_fields argument *)
MaxSrcLen == 1

(* 'orders' *)
txt_orders == <<"o", "r", "d", "e", "r", "s">>

(* 'total' *)
txt_total == <<"t", "o", "t", "a", "l">>

(* 'line_items' *)
txt_line_items == <<"l", "i", "n", "e", "_", "i", "t", "e", "m", "s">>

(* 'amount' *)
txt_amount == <<"a", "m", "o", "u", "n", "t">>

(* 'sum' *)
txt_sum == <<"s", "u", "m">>

(* 'products' *)
txt_products == <<"p", "r", "o", "d", "u", "c", "t", "s">>

(* 'customers' *)
txt_customers == <<"c", "u", "s", "t", "o", "m", "e", "r", "s">>

(* 'price' *)
txt_price == <<"p", "r", "i", "c", "e">>

(* 'discount' *)
txt_discount == <<"d", "i", "s", "c", "o", "u", "n", "t">>

SrcTableNames == <<txt_line_items, txt_products, txt_customers>>

SrcFieldNames == <<txt_amount, txt_price, txt_discount>>

Prefixes(names, n) == {SubSeq(names, 1, k) : k \in 0..Min({n, Len(names)})}

SourceTableLists == Prefixes(SrcTableNames, MaxSrcLen)

SourceFieldLists == Prefixes(SrcFieldNames, MaxSrcLen)

JoinConditions == {<<>>, txt_sum}

(* ("orders","total"), and ("a.b","c") / ("a","b.c"), which format to the  *)
(* same key                                                                *)
RegistryPairs ==
    {<<txt_orders, txt_total>>,
     <<<<"a", ".", "b">>, <<"c">>>>,
     <<<<"a">>, <<"b", ".", "c">>>>}

(* the pairs looked up: the declared ones and one that never is declared *)
LookupPairs == RegistryPairs \cup {<<txt_orders, txt_amount>>}

(***************************************************************************)
(* State: the module-level field_tracker of src/main.py (lineage_db and    *)
(* the objects it refers to), the caller's last call and what it returned. *)
(* `latest` is history: per key, the arguments of the last declaration     *)
(* since the registry was last cleared.  call.prior is history too: what   *)
(* the call found (see each action).                                       *)
(***************************************************************************)

Call(op, prior, table, field, source_tables, source_fields, join_condition, query) ==
    [op |-> op, prior |-> prior, table |-> table, field |-> field,
     source_tables |-> source_tables, source_fields |-> source_fields,
     join_condition |-> join_condition, query |-> query]

(* what a lookup of the record at address a shows *)
RecordValue(h, a) ==
    [source_tables  |-> Elems(h, h[a].items.source_tables),
     source_fields  |-> Elems(h, h[a].items.source_fields),
     join_condition |-> h[a].items.join_condition]

Declared(source_tables, source_fields, join_condition) ==
    [source_tables  |-> source_tables,
     source_fields  |-> source_fields,
     join_condition |-> join_condition]

(* sqlite3 before the first connect: no connection object and no database *)
(* file                                                                    *)
sqlite_start == [conns |-> <<>>, files |-> EmptyMap]

Init ==
    /\ lineage_db = EmptyMap
    /\ heap = EmptyMap
    /\ call = Call("init", "", <<>>, <<>>, <<>>, <<>>, <<>>, <<>>)
    /\ ret = PyNone
    /\ latest = EmptyMap
    /\ connections = EmptyMap
    /\ sqlite = sqlite_start
    /\ tasks = <<>>

(* the add_field_lineage tool.  prior: "replaced" when the key held a      *)
(* record declared with other values, "same" when with these, else "new".  *)
AddFieldLineage(pairs, sts, sfs, jcs) ==
    \E p \in pairs, st \in sts, sf \in sfs, jc \in jcs :
      \E r \in {add_field_lineage(lineage_db, heap, p[1], p[2], st, sf, jc)} :
        \E live \in {Collect(r.heap, r.db, <<>>, r.ret)} :
          \E name \in {Renaming(DOMAIN live)}, key \in {p[1] \o <<".">> \o p[2]} :
            /\ lineage_db' = RenameMap(r.db, name)
            /\ heap' = RenameHeap(live, name)
            /\ ret' = r.ret
            /\ call' = Call("add_field_lineage",
                            IF key \notin DOMAIN latest THEN "new"
                            ELSE IF latest[key] = Declared(st, sf, jc) THEN "same"
                            ELSE "replaced",
                            p[1], p[2], st, sf, jc, <<>>)
            /\ latest' = Put(latest, key, Declared(st, sf, jc))
            /\ UNCHANGED <<database, tasks>>

(* field_tracker.get_lineage(table, field).  prior: "declared" when the    *)
(* call before this one declared the same (table, field).                  *)
GetLineage(pairs) ==
    \E p \in pairs :
      \E v \in {get_lineage(lineage_db, p[1], p[2])} :
        /\ ret' = v
        /\ call' = Call("get_lineage",
                        IF /\ call.op = "add_field_lineage"
                           /\ call.table = p[1]
                           /\ call.field = p[2]
                        THEN "declared" ELSE "",
                        p[1], p[2], <<>>, <<>>, <<>>, <<>>)
        /\ heap' = Collect(heap, lineage_db, <<>>, v)
        /\ UNCHANGED <<lineage_db, latest, database, tasks>>

(* field_tracker.get_all_lineage() *)
GetAllLineage ==
    \E v \in {get_all_lineage(lineage_db)} :
        /\ ret' = v
        /\ call' = Call("get_all_lineage", "", <<>>, <<>>, <<>>, <<>>, <<>>, <<>>)
        /\ heap' = Collect(heap, lineage_db, <<>>, v)
        /\ UNCHANGED <<lineage_db, latest, database, tasks>>

(* field_tracker.clear_lineage().  prior: "nonempty" when records existed. *)
ClearLineage ==
    /\ lineage_db' = clear_lineage(lineage_db)
    /\ ret' = PyNone
    /\ call' = Call("clear_lineage",
                    IF DOMAIN latest # {} THEN "nonempty" ELSE "",
                    <<>>, <<>>, <<>>, <<>>, <<>>, <<>>)
    /\ heap' = Collect(heap, lineage_db', <<>>, PyNone)
    /\ latest' = EmptyMap
    /\ UNCHANGED <<database, tasks>>

(* the trace_field_lineage tool *)
TraceFieldLineage(pairs) ==
    \E p \in pairs :
      \E v \in {trace_field_lineage(lineage_db, heap, p[1], p[2])} :
        /\ ret' = v
        /\ call' = Call("trace_field_lineage", "", p[1], p[2], <<>>, <<>>, <<>>, <<>>)
        /\ heap' = Collect(heap, lineage_db, <<>>, v)
        /\ UNCHANGED <<lineage_db, latest, database, tasks>>

Next ==
    \/ AddFieldLineage(RegistryPairs, SourceTableLists, SourceFieldLists,
                       JoinConditions)
    \/ GetLineage(LookupPairs)
    \/ GetAllLineage
    \/ ClearLineage
    \/ TraceFieldLineage(LookupPairs)

Spec == Init /\ [][Next]_vars

(***************************************************************************)
(* The query analyzer: queries, and the specification SpecAnalyzer         *)
(***************************************************************************)

(* 'SELECT total FROM orders' *)
q_select_total ==
    <<"S", "E", "L", "E", "C", "T", " ", "t", "o", "t", "a", "l", " ", "F",
      "R", "O", "M", " ", "o", "r", "d", "e", "r", "s">>

(* 'SELECT id, name FROM users JOIN accounts ON users.id = accounts.user_id' *)
q_users_accounts ==
    <<"S", "E", "L", "E", "C", "T", " ", "i", "d", ",", " ", "n", "a", "m",
      "e", " ", "F", "R", "O", "M", " ", "u", "s", "e", "r", "s", " ", "J",
      "O", "I", "N", " ", "a", "c", "c", "o", "u", "n", "t", "s", " ", "O",
      "N", " ", "u", "s", "e", "r", "s", ".", "i", "d", " ", "=", " ", "a",
      "c", "c", "o", "u", "n", "t", "s", ".", "u", "s", "e", "r", "_", "i",
      "d">>

(* 'SELECT * FROM t' *)
q_star ==
    <<"S", "E", "L", "E", "C", "T", " ", "*", " ", "F", "R", "O", "M", " ",
      "t">>

(* 'not sql' *)
q_not_sql ==
    <<"n", "o", "t", " ", "s", "q", "l">>

(* 'SELECT T.A, U.A FROM T JOIN U' *)
q_qualified ==
    <<"S", "E", "L", "E", "C", "T", " ", "T", ".", "A", ",", " ", "U", ".",
      "A", " ", "F", "R", "O", "M", " ", "T", " ", "J", "O", "I", "N", " ",
      "U">>

(* 'select a from t' *)
q_lower_keywords ==
    <<"s", "e", "l", "e", "c", "t", " ", "a", " ", "f", "r", "o", "m", " ",
      "t">>

(* 'SELECT A, A FROM T' *)
q_same_field_twice ==
    <<"S", "E", "L", "E", "C", "T", " ", "A", ",", " ", "A", " ", "F", "R",
      "O", "M", " ", "T">>

(* 'SELECT A FROM T JOIN T' *)
q_same_table_twice ==
    <<"S", "E", "L", "E", "C", "T", " ", "A", " ", "F", "R", "O", "M", " ",
      "T", " ", "J", "O", "I", "N", " ", "T">>

(* 'SELECT  FROM T' *)
q_no_field ==
    <<"S", "E", "L", "E", "C", "T", " ", " ", "F", "R", "O", "M", " ", "T">>

(* 'SELECT A FROM' *)
q_no_table ==
    <<"S", "E", "L", "E", "C", "T", " ", "A", " ", "F", "R", "O", "M">>

(* 'FROM FROM T' *)
q_from_from ==
    <<"F", "R", "O", "M", " ", "F", "R", "O", "M", " ", "T">>

(* 'SELECT A\nFROM U' *)
q_newline ==
    <<"S", "E", "L", "E", "C", "T", " ", "A", "\n", "F", "R", "O", "M",
      " ", "U">>

(* 'SELECT U. A ,* FROM T' *)
q_spaced_qualifier ==
    <<"S", "E", "L", "E", "C", "T", " ", "U", ".", " ", "A", " ", ",", "*",
      " ", "F", "R", "O", "M", " ", "T">>

(* 'SELECT A. FROM T' *)
q_trailing_dot ==
    <<"S", "E", "L", "E", "C", "T", " ", "A", ".", " ", "F", "R", "O", "M",
      " ", "T">>

(* 'SELECT A FROM T SELECT B FROM U' *)
q_two_selects ==
    <<"S", "E", "L", "E", "C", "T", " ", "A", " ", "F", "R", "O", "M", " ",
      "T", " ", "S", "E", "L", "E", "C", "T", " ", "B", " ", "F", "R", "O",
      "M", " ", "U">>

(* 'xfrom t' *)
q_inside_word ==
    <<"x", "f", "r", "o", "m", " ", "t">>

(* 'SELECT from_date FROM t' *)
q_from_in_field ==
    <<"S", "E", "L", "E", "C", "T", " ", "f", "r", "o", "m", "_", "d", "a", "t", "e", " ", "F", "R", "O", "M", " ", "t">>

(* 'SELECT a FROM data_from d' *)
q_table_ends_from ==
    <<"S", "E", "L", "E", "C", "T", " ", "a", " ", "F", "R", "O", "M", " ", "d", "a", "t", "a", "_", "f", "r", "o", "m", " ", "d">>

(* 'SELECT(a) FROM t' *)
q_select_paren ==
    <<"S", "E", "L", "E", "C", "T", "(", "a", ")", " ", "F", "R", "O", "M", " ", "t">>

FixedQueries ==
    {q_select_total,
     q_users_accounts,
     q_star,
     q_not_sql,
     q_qualified,
     q_lower_keywords,
     q_same_field_twice,
     q_same_table_twice,
     q_no_field,
     q_no_table,
     q_from_from,
     q_newline,
     q_spaced_qualifier,
     q_trailing_dot,
     q_two_selects,
     q_inside_word,
     q_from_in_field,
     q_table_ends_from,
     q_select_paren,
     <<>>}

(* most fields in a generated SELECT list *)
MaxFields == 1

FieldExprs == {<<"A">>, <<"U", ".", "A">>, <<"*">>}

TableNames == {<<"T">>, <<"U">>}

FieldLists == UNION {[1..n -> FieldExprs] : n \in 1..MaxFields}

(* SELECT f1, f2 FROM t *)
SelectQuery(fs, t) ==
    kw_SELECT \o <<" ">> \o join(CommaSpace, fs) \o <<" ">> \o kw_FROM
        \o <<" ">> \o t

GeneratedQueries ==
    {SelectQuery(fs, t) : fs \in FieldLists, t \in TableNames}

Queries == FixedQueries \cup GeneratedQueries

(* the pairs declared here: the spec's example, and names as the analyzer  *)
(* captures them                                                           *)
AnalyzerPairs ==
    {<<txt_orders, txt_total>>, <<<<"T">>, <<"A">>>>, <<<<"U">>, <<"A">>>>}

(* field_tracker.analyze_query_lineage(query) *)
AnalyzeQuery(queries) ==
    \E q \in queries :
      \E v \in {FieldTracker_analyze_query_lineage(q)} :
        /\ ret' = v
        /\ call' = Call("analyze", "", <<>>, <<>>, <<>>, <<>>, <<>>, q)
        /\ heap' = Collect(heap, lineage_db, <<>>, v)
        /\ UNCHANGED <<lineage_db, latest, database, tasks>>

(* the analyze_query_lineage tool *)
AnalyzeQueryLineage(queries) ==
    \E q \in queries :
      \E v \in {analyze_query_lineage(lineage_db, heap, q)} :
        /\ ret' = v
        /\ call' = Call("analyze_query_lineage", "", <<>>, <<>>, <<>>, <<>>, <<>>, q)
        /\ heap' = Collect(heap, lineage_db, <<>>, v)
        /\ UNCHANGED <<lineage_db, latest, database, tasks>>

NextAnalyzer ==
    \/ AddFieldLineage(AnalyzerPairs, {<<txt_line_items>>}, {<<txt_amount>>},
                       {txt_sum})
    \/ ClearLineage
    \/ AnalyzeQuery(Queries)
    \/ AnalyzeQueryLineage(Queries)

SpecAnalyzer == Init /\ [][NextAnalyzer]_vars

(***************************************************************************)
(* Properties of the registry and of trace_field_lineage, under Spec       *)
(***************************************************************************)

CallKey == call.table \o <<".">> \o call.field

PairKey(p) == p[1] \o <<".">> \o p[2]

(* C1: a get_lineage that immediately follows a declaration of the same    *)
(* (table, field) returns a record whose source_tables, source_fields and  *)
(* join_condition are exactly the declared ones ("" when it was omitted).  *)
C1_DeclareThenLookup ==
    [][(/\ call.op = "add_field_lineage"
        /\ call'.op = "get_lineage"
        /\ call'.table = call.table
        /\ call'.field = call.field)
       => (/\ ret'.t = "ref"
           /\ RecordValue(heap', ret'.addr)
                  = Declared(call.source_tables, call.source_fields,
                             call.join_condition))]_vars

(* a lookup right after a declaration that left join_condition out *)
C1_Witness ==
    /\ call.op = "get_lineage"
    /\ call.prior = "declared"
    /\ ret.t = "ref"
    /\ RecordValue(heap, ret.addr).join_condition = <<>>
    /\ RecordValue(heap, ret.addr).source_tables # <<>>

(* C2: last write wins -- whatever was declared before, a lookup of a key  *)
(* shows exactly the values of the latest declaration of that key, and so  *)
(* does the last get_lineage call.                                         *)
C2_LastWriteWins ==
    /\ \A p \in LookupPairs :
          PairKey(p) \in DOMAIN latest
          => (/\ get_lineage(lineage_db, p[1], p[2]).t = "ref"
              /\ RecordValue(heap, get_lineage(lineage_db, p[1], p[2]).addr)
                     = latest[PairKey(p)])
    /\ (call.op = "get_lineage" /\ CallKey \in DOMAIN latest)
       => (ret.t = "ref" /\ RecordValue(heap, ret.addr) = latest[CallKey])

(* a declaration has just replaced a record declared with other values *)
C2_Witness ==
    /\ call.op = "add_field_lineage"
    /\ call.prior = "replaced"
    /\ RecordValue(heap, lineage_db[CallKey])
           = Declared(call.source_tables, call.source_fields, call.join_condition)

(* C4: right after clear_lineage the registry is empty: every lookup is    *)
(* None and get_all_lineage is the empty dict.                             *)
C4_ClearEmpties ==
    call.op = "clear_lineage"
    => (/\ DOMAIN lineage_db = {}
        /\ \A p \in LookupPairs : get_lineage(lineage_db, p[1], p[2]) = PyNone
        /\ get_all_lineage(lineage_db) = PyDict(EmptyMap))

(* a clear of a registry that held records *)
C4_Witness == call.op = "clear_lineage" /\ call.prior = "nonempty"

(* C5: a miss is a result, not a failure: get_lineage never raises and is  *)
(* None for a key with no declaration since the last clear;                *)
(* trace_field_lineage never gives the error text, and gives the           *)
(* not-found text exactly when the key has no declaration.                 *)
C5_MissIsData ==
    /\ call.op = "get_lineage"
       => (/\ ret.t # "raise"
           /\ CallKey \notin DOMAIN latest => ret = PyNone)
    /\ call.op = "trace_field_lineage"
       => (/\ ret.t = "str"
           /\ ~StartsAt(ret.s, 1, msg_error_tracing)
           /\ (ret.s = msg_no_lineage \o call.table \o <<".">> \o call.field)
                  <=> (CallKey \notin DOMAIN latest))

(* a trace of a key that is not declared *)
C5_Witness ==
    /\ call.op = "trace_field_lineage"
    /\ CallKey \notin DOMAIN latest
    /\ StartsAt(ret.s, 1, msg_no_lineage)

(* C9: every key is target_table + "." + target_field of its record, and   *)
(* a lookup depends on that string only: pairs that format to the same     *)
(* key get the same record.                                                *)
C9_KeyIsTableDotField ==
    /\ \A k \in DOMAIN lineage_db :
          k = heap[lineage_db[k]].items.target_table \o <<".">>
                  \o heap[lineage_db[k]].items.target_field
    /\ \A p, q \in LookupPairs :
          PairKey(p) = PairKey(q)
          => get_lineage(lineage_db, p[1], p[2]) = get_lineage(lineage_db, q[1], q[2])

(* a lookup returned the record that was declared for another pair *)
C9_Witness ==
    /\ call.op = "get_lineage"
    /\ ret.t = "ref"
    /\ heap[ret.addr].items.target_table # call.table

StoredTables(k) == Elems(heap, heap[lineage_db[k]].items.source_tables)

StoredFields(k) == Elems(heap, heap[lineage_db[k]].items.source_fields)

(* C10 as stated: every record has as many source fields as source tables *)
C10_EqualLengths ==
    \A k \in DOMAIN lineage_db : Len(StoredFields(k)) = Len(StoredTables(k))

(* C10 amended: a record holds sequences of exactly the lengths that were  *)
(* declared, so they are equally long exactly when the arguments were.     *)
C10_LengthsAsDeclared ==
    \A k \in DOMAIN lineage_db :
        /\ k \in DOMAIN latest
        /\ Len(StoredTables(k)) = Len(latest[k].source_tables)
        /\ Len(StoredFields(k)) = Len(latest[k].source_fields)
        /\ (Len(StoredFields(k)) = Len(StoredTables(k)))
               <=> (Len(latest[k].source_fields) = Len(latest[k].source_tables))

(* a record whose sequences differ in length *)
C10_Witness ==
    \E k \in DOMAIN lineage_db : Len(StoredFields(k)) # Len(StoredTables(k))

(* what a lookup shows for every key of the registry *)
RegistryView(db, h) == [k \in DOMAIN db |-> RecordValue(h, db[k])]

(* C11: only clear_lineage removes records -- a step that is not a clear   *)
(* keeps every key of the registry, so between two clears the key set      *)
(* never shrinks.                                                          *)
C11_OnlyClearRemoves ==
    [][call'.op # "clear_lineage"
       => DOMAIN lineage_db \subseteq DOMAIN lineage_db']_vars

(* a second key has been declared, and a lookup of a key that was never    *)
(* declared has followed: both keys are still there                        *)
C11_Witness ==
    /\ call.op = "trace_field_lineage"
    /\ CallKey \notin DOMAIN lineage_db
    /\ Cardinality(DOMAIN lineage_db) = 2

(* C16: a declaration changes the record of its own key only: every other  *)
(* key keeps its record, and the registry grows by one exactly when the    *)
(* key was not in it.                                                      *)
C16_DeclareFrame ==
    [][call'.op = "add_field_lineage"
       => LET key == call'.table \o <<".">> \o call'.field
          IN  /\ DOMAIN lineage_db' = DOMAIN lineage_db \cup {key}
              /\ \A k \in DOMAIN lineage_db \ {key} :
                     RegistryView(lineage_db', heap')[k]
                         = RegistryView(lineage_db, heap)[k]
              /\ Cardinality(DOMAIN lineage_db')
                     = IF key \in DOMAIN lineage_db
                       THEN Cardinality(DOMAIN lineage_db)
                       ELSE Cardinality(DOMAIN lineage_db) + 1]_vars

(* a key was declared again, with other values, next to a second key whose *)
(* record differs from the new one                                         *)
C16_Witness ==
    /\ call.op = "add_field_lineage"
    /\ call.prior = "replaced"
    /\ \E k \in DOMAIN lineage_db :
          /\ k # CallKey
          /\ RecordValue(heap, lineage_db[k])
                 # RecordValue(heap, lineage_db[CallKey])

(***************************************************************************)
(* Properties of the analyzer and of analyze_query_lineage, under          *)
(* SpecAnalyzer                                                            *)
(***************************************************************************)

EndsWith(s, lit) == StartsAt(s, Len(s) - Len(lit) + 1, lit)

(* the number of places of s where lit starts *)
Occurrences(s, lit) == Cardinality({i \in 1..Len(s) : StartsAt(s, i, lit)})

(* the first three lines of the report for an analysis *)
ReportHead(analysis) ==
    msg_query_analysis
        \o msg_tables_involved \o join(CommaSpace, analysis.tables) \o <<"\n">>
        \o msg_fields_selected \o join(CommaSpace, analysis.fields) \o <<"\n">>

(* the last line of the report for a tracked list *)
ReportTail(tracked) ==
    IF tracked # <<>> THEN msg_tracked \o join(CommaSpace, tracked)
    ELSE msg_no_tracked

(* C6 as stated: a report on SELECT <field> FROM <table>, spelled as a     *)
(* declared (table, field), lists exactly that key as tracked.             *)
C6_DeclaredFieldIsTracked ==
    \A p \in AnalyzerPairs :
        (/\ call.op = "analyze_query_lineage"
         /\ call.query = SelectQuery(<<p[2]>>, p[1])
         /\ PairKey(p) \in DOMAIN latest)
        => EndsWith(ret.s, ReportTail(<<PairKey(p)>>))

(* the field expression after its last period, trimmed *)
AfterLastDot(f) ==
    LET dots == {i \in 1..Len(f) : f[i] = "."}
    IN  strip(IF dots = {} THEN f ELSE SubSeq(f, Max(dots) + 1, Len(f)))

(* the cross product of tables and fields, tables outermost, as the        *)
(* sequence of its cells 0 .. Len(tables) * Len(fields) - 1                *)
CrossCells(tables, fields) ==
    [i \in 1..(Len(tables) * Len(fields)) |->
        [table |-> tables[((i - 1) \div Len(fields)) + 1],
         field |-> fields[((i - 1) % Len(fields)) + 1]]]

(* the cells that are tracked: not the wildcard, and the registry holds    *)
(* table + "." + clean_field                                               *)
TrackedOf(db, tables, fields) ==
    LET kept == SelectSeq(CrossCells(tables, fields),
                          LAMBDA c : /\ c.field # <<"*">>
                                     /\ (c.table \o <<".">> \o AfterLastDot(c.field))
                                            \in DOMAIN db)
    IN  [i \in 1..Len(kept) |->
            kept[i].table \o <<".">> \o AfterLastDot(kept[i].field)]

(* the report for an analysis, with the tracked list as the cross product *)
ExpectedReport(db, analysis) ==
    PyStr(ReportHead(analysis)
          \o ReportTail(TrackedOf(db, analysis.tables, analysis.fields)))

CallAnalysis == FieldTracker_analyze_query_lineage(call.query)

(* C7: the tracked list of a report is the cross product of the extracted  *)
(* tables and fields, in order, without the wildcard, filtered by the      *)
(* registry, not de-duplicated; it has at most len(tables) * len(fields)   *)
(* entries.                                                                *)
C7_TrackedIsCrossProduct ==
    LET holds(analysis) ==
            /\ ret = ExpectedReport(lineage_db, analysis)
            /\ Len(TrackedOf(lineage_db, analysis.tables, analysis.fields))
                   <= Len(analysis.tables) * Len(analysis.fields)
    IN  call.op = "analyze_query_lineage" => holds(CallAnalysis)

(* a report that lists T.A twice, once for the field written U.A *)
C7_Witness ==
    /\ call.op = "analyze_query_lineage"
    /\ CallAnalysis.fields = <<<<"T", ".", "A">>, <<"U", ".", "A">>>>
    /\ CallAnalysis.tables = <<<<"T">>, <<"U">>>>
    /\ EndsWith(ret.s, msg_tracked
                       \o <<"T", ".", "A", ",", " ", "T", ".", "A">>)

(* the text holds neither FROM nor JOIN, in any casing *)
NoKeyword(q) ==
    LET none(u) == \A i \in 1..Len(u) :
                       ~StartsAt(u, i, kw_FROM) /\ ~StartsAt(u, i, kw_JOIN)
    IN  none(upper(q))

(* C8: analyze and the report have no error outcome, give empty tables and *)
(* fields for a text in which nothing matches, and leave the registry as   *)
(* it was.                                                                 *)
C8_NoErrorOutcome ==
    [][(call'.op \in {"analyze", "analyze_query_lineage"})
       => (/\ lineage_db' = lineage_db
           /\ heap' = heap
           /\ call'.op = "analyze"
              => (/\ ret'.t = "analysis"
                  /\ NoKeyword(call'.query)
                     => (ret'.tables = <<>> /\ ret'.fields = <<>>))
           /\ call'.op = "analyze_query_lineage"
              => (/\ ret'.t = "str"
                  /\ StartsAt(ret'.s, 1, msg_query_analysis)
                  /\ ~StartsAt(ret'.s, 1, msg_error_analyzing)
                  /\ NoKeyword(call'.query)
                     => ret'.s = msg_query_analysis
                                     \o msg_tables_involved \o <<"\n">>
                                     \o msg_fields_selected \o <<"\n">>
                                     \o msg_no_tracked))]_vars

(* the report on "not sql" with records in the registry *)
C8_Witness ==
    /\ call.op = "analyze_query_lineage"
    /\ call.query = q_not_sql
    /\ DOMAIN lineage_db # {}
    /\ ret = PyStr(msg_query_analysis \o msg_tables_involved \o <<"\n">>
                   \o msg_fields_selected \o <<"\n">> \o msg_no_tracked)

(* the elements of a set of numbers, ascending *)
Ascending(S) ==
    [k \in 1..Cardinality(S) |->
        CHOOSE x \in S : Cardinality({y \in S : y < x}) = k - 1]

(* FROM or JOIN starts at position i and is followed by whitespace and an  *)
(* identifier                                                              *)
MentionAt(u, i) ==
    /\ StartsAt(u, i, kw_FROM) \/ StartsAt(u, i, kw_JOIN)
    /\ SpaceRun(u, i + 4) >= 1
    /\ WordRun(u, i + 4 + SpaceRun(u, i + 4)) >= 1

TableMentions(u) == {i \in 1..Len(u) : MentionAt(u, i)}

(* the first position after the identifier of the mention at i *)
MentionEnd(u, i) ==
    i + 4 + SpaceRun(u, i + 4) + WordRun(u, i + 4 + SpaceRun(u, i + 4))

(* the identifier of the mention at i *)
IdentifierAt(u, i) ==
    SubSeq(u, i + 4 + SpaceRun(u, i + 4), MentionEnd(u, i) - 1)

IdentifiersAt(u, S) ==
    LET at(order) == [k \in 1..Len(order) |-> IdentifierAt(u, order[k])]
    IN  at(Ascending(S))

(* the mentions from position i on that do not start inside the identifier *)
(* of an earlier one of them                                               *)
RECURSIVE SeparateMentions(_, _)
SeparateMentions(u, i) ==
    LET later == {j \in TableMentions(u) : j >= i}
    IN  IF later = {} THEN {}
        ELSE {Min(later)} \cup SeparateMentions(u, MentionEnd(u, Min(later)))

(* C17 as stated: tables has one entry for every place of the text where   *)
(* FROM or JOIN is followed by whitespace and an identifier, in order.     *)
C17_OneEntryPerMention ==
    LET holds(u) == ret.tables = IdentifiersAt(u, TableMentions(u))
    IN  call.op = "analyze" => holds(upper(call.query))

(* C17: tables has one entry, the upper-cased identifier, for every place  *)
(* where FROM or JOIN is followed by whitespace and an identifier and that *)
(* does not start inside the identifier of an earlier counted place, in    *)
(* the order of the text; a table named twice is listed twice.             *)
C17_OneEntryPerSeparateMention ==
    LET holds(u) == ret.tables = IdentifiersAt(u, SeparateMentions(u, 1))
    IN  call.op = "analyze" => holds(upper(call.query))

(* 'FROM FROM T': the second FROM is the identifier of the first, so the   *)
(* only entry is FROM                                                      *)
C17_Witness ==
    /\ call.op = "analyze"
    /\ call.query = q_from_from
    /\ Cardinality(TableMentions(upper(call.query))) = 2
    /\ ret.tables = <<kw_FROM>>

(* the pieces of a span of text: split on commas, each piece trimmed *)
PiecesOf(span) ==
    LET trimmed(pieces) == [k \in 1..Len(pieces) |-> strip(pieces[k])]
    IN  trimmed(split(span, ","))

(* C18 as stated: fields are the pieces of the text between the first      *)
(* SELECT and the first FROM after it, and empty when there is no such     *)
(* pair.                                                                   *)
C18_BetweenFirstSelectAndFrom ==
    LET holds(u) ==
            LET selects == {i \in 1..Len(u) : StartsAt(u, i, kw_SELECT)}
                froms(i) == {j \in (i + 6)..Len(u) : StartsAt(u, j, kw_FROM)}
            IN  IF selects = {} \/ froms(Min(selects)) = {}
                THEN ret.fields = <<>>
                ELSE ret.fields
                         = PiecesOf(SubSeq(u, Min(selects) + 6,
                                           Min(froms(Min(selects))) - 1))
    IN  call.op = "analyze" => holds(upper(call.query))

(* whitespace at position q, and FROM right after the run it starts *)
FromAfterSpace(u, q) ==
    /\ q <= Len(u)
    /\ IsSpace(u[q])
    /\ StartsAt(u, q + SpaceRun(u, q), kw_FROM)

(* C18: fields are the pieces (split on commas, trimmed, in order,         *)
(* duplicates kept) of a span that begins after the whitespace following   *)
(* the first SELECT which has whitespace after it and a whitespace-then-   *)
(* FROM later on, and that ends before the first whitespace-then-FROM at   *)
(* or after its beginning (the span is empty when the only such FROM       *)
(* comes right after the whitespace that follows SELECT); fields is empty  *)
(* when no SELECT is of that kind, whatever tables holds.                  *)
C18_FieldsFromSpan ==
    LET holds(u) ==
            LET ends(i) == {q \in (i + 7)..Len(u) : FromAfterSpace(u, q)}
                selects == {i \in 1..Len(u) :
                               /\ StartsAt(u, i, kw_SELECT)
                               /\ SpaceRun(u, i + 6) >= 1
                               /\ ends(i) # {}}
                begin(i) == i + 6 + SpaceRun(u, i + 6)
                later(i) == {q \in ends(i) : q >= begin(i)}
            IN  IF selects = {} THEN ret.fields = <<>>
                ELSE IF later(Min(selects)) = {}
                THEN ret.fields = PiecesOf(<<>>)
                ELSE ret.fields
                         = PiecesOf(SubSeq(u, begin(Min(selects)),
                                           Min(later(Min(selects))) - 1))
    IN  call.op = "analyze" => holds(upper(call.query))

(* 'SELECT from_date FROM t': the field is FROM_DATE, though the first     *)
(* FROM after SELECT is the one inside it                                  *)
C18_Witness ==
    /\ call.op = "analyze"
    /\ call.query = q_from_in_field
    /\ ret.fields = <<upper(SubSeq(q_from_in_field, 8, 16))>>
    /\ ret.tables = <<<<"T">>>>

(* the text has no lower-case letter *)
NoLowerCase(s) == \A i \in 1..Len(s) : s[i] \notin Range(LowerCase)

(* what follows 'Fields with tracked lineage: ' in a report, if anything *)
TrackedText(report) ==
    LET at == {i \in 1..Len(report) : StartsAt(report, i, msg_tracked)}
    IN  IF at = {} THEN <<>>
        ELSE SubSeq(report, Min(at) + Len(msg_tracked), Len(report))

(* C19: the names analyze returns have no lower-case letter, the tracked   *)
(* entries of a report have none, and no key declared with a lower-case    *)
(* letter is ever among them.                                              *)
C19_CapturedNamesUpperCase ==
    /\ call.op = "analyze"
       => /\ \A i \in 1..Len(ret.tables) : NoLowerCase(ret.tables[i])
          /\ \A i \in 1..Len(ret.fields) : NoLowerCase(ret.fields[i])
    /\ call.op = "analyze_query_lineage"
       => /\ NoLowerCase(TrackedText(ret.s))
          /\ \A k \in DOMAIN lineage_db :
                 ~NoLowerCase(k) => Occurrences(TrackedText(ret.s), k) = 0

(* orders.total and T.A are declared and the report on                     *)
(* 'SELECT total FROM orders' tracks nothing                               *)
C19_Witness ==
    /\ call.op = "analyze_query_lineage"
    /\ call.query = q_select_total
    /\ PairKey(<<txt_orders, txt_total>>) \in DOMAIN lineage_db
    /\ \E k \in DOMAIN lineage_db : NoLowerCase(k)
    /\ EndsWith(ret.s, msg_no_tracked)

(***************************************************************************)
(* A caller that keeps what get_all_lineage returned and changes it: the   *)
(* specification SpecAlias.  `ret` is the caller's dict; its values are    *)
(* the record objects of the registry.                                     *)
(***************************************************************************)

(* the longest list a caller grows by append *)
MaxElems == 2

AliasPairs == {<<txt_orders, txt_total>>, <<txt_products, txt_price>>}

AliasKeys == {KeyOf(p[1], p[2]) : p \in AliasPairs}

(* d[name] = value on the dict object at address a *)
setitem(h, a, name, value) == [h EXCEPT ![a].items[name] = value]

(* xs.append(x) on the list object at address a *)
append(h, a, x) == [h EXCEPT ![a].elems = Append(@, x)]

(* del snapshot[key] *)
SnapshotDelete ==
    /\ ret.t = "dict"
    /\ \E k \in DOMAIN ret.items :
         /\ ret' = PyDict(Restrict(ret.items, DOMAIN ret.items \ {k}))
         /\ call' = Call("del snapshot[key]", "", <<>>, <<>>, <<>>, <<>>, <<>>, <<>>)
         /\ heap' = Collect(heap, lineage_db, <<>>, ret')
         /\ UNCHANGED <<lineage_db, latest, database, tasks>>

(* snapshot[key] = snapshot[other] *)
SnapshotAssign(keys) ==
    /\ ret.t = "dict"
    /\ \E k \in keys, o \in DOMAIN ret.items :
         /\ ret' = PyDict(Put(ret.items, k, ret.items[o]))
         /\ call' = Call("snapshot[key] = record", "", <<>>, <<>>, <<>>, <<>>, <<>>, <<>>)
         /\ heap' = Collect(heap, lineage_db, <<>>, ret')
         /\ UNCHANGED <<lineage_db, latest, database, tasks>>

(* snapshot[key]["join_condition"] = jc *)
RecordAssign(jcs) ==
    /\ ret.t = "dict"
    /\ \E k \in DOMAIN ret.items, jc \in jcs :
         /\ heap' = setitem(heap, ret.items[k], "join_condition", jc)
         /\ call' = Call("snapshot[key][name] = value", "", <<>>, <<>>, <<>>, <<>>, jc, <<>>)
         /\ UNCHANGED <<lineage_db, ret, latest, database, tasks>>

(* snapshot[key]["source_tables"].append(name) *)
ListAppend(names) ==
    /\ ret.t = "dict"
    /\ \E k \in DOMAIN ret.items, x \in names :
         /\ Len(Elems(heap, heap[ret.items[k]].items.source_tables)) < MaxElems
         /\ heap' = append(heap, heap[ret.items[k]].items.source_tables, x)
         /\ call' = Call("snapshot[key][name].append(x)", "", <<>>, <<>>, <<>>, <<>>, <<>>, <<>>)
         /\ UNCHANGED <<lineage_db, ret, latest, database, tasks>>

NextAlias ==
    \/ AddFieldLineage(AliasPairs, {<<txt_line_items>>}, {<<txt_amount>>},
                       {txt_sum})
    \/ GetLineage(AliasPairs)
    \/ GetAllLineage
    \/ SnapshotDelete
    \/ SnapshotAssign(AliasKeys)
    \/ RecordAssign({<<>>, txt_discount})
    \/ ListAppend({txt_customers})

SpecAlias == Init /\ [][NextAlias]_vars

(***************************************************************************)
(* Properties of the returned snapshot, under SpecAlias                    *)
(***************************************************************************)

(* what get_lineage then shows for a pair: None, or the record's values *)
LookupResult(db, h, p) ==
    LET shown(v) == IF v.t = "ref" THEN RecordValue(h, v.addr) ELSE PyNone
    IN  shown(get_lineage(db, p[1], p[2]))

(* what get_all_lineage then shows: per key, the record's values *)
ListAllResult(db, h) ==
    LET shown(v) == [k \in DOMAIN v.items |-> RecordValue(h, v.items[k])]
    IN  shown(get_all_lineage(db))

SnapshotMutations ==
    {"del snapshot[key]", "snapshot[key] = record",
     "snapshot[key][name] = value", "snapshot[key][name].append(x)"}

(* C3 as stated: no change a caller makes to the returned dict, to a       *)
(* record in it or to a record's lists changes what a later get_lineage or *)
(* get_all_lineage shows.                                                  *)
C3_SnapshotIsolated ==
    [][call'.op \in SnapshotMutations =>
          /\ ListAllResult(lineage_db', heap') = ListAllResult(lineage_db, heap)
          /\ \A p \in AliasPairs :
                 LookupResult(lineage_db', heap', p)
                     = LookupResult(lineage_db, heap, p)]_vars

(***************************************************************************)
(* A caller of FieldTracker that keeps the lists it passed to add_lineage  *)
(* and the record get_lineage returned, and changes them: the              *)
(* specification SpecOwner.  After add_lineage, call.source_tables and     *)
(* call.source_fields are the caller's references to its two lists.        *)
(***************************************************************************)

OwnerPairs == {<<txt_orders, txt_total>>, <<txt_products, txt_price>>}

(* st = [...]; sf = [...]; field_tracker.add_lineage(t, f, st, sf, jc) *)
AddLineage(pairs, sts, sfs, jcs) ==
    \E p \in pairs, st \in sts, sf \in sfs, jc \in jcs :
      \E key \in {KeyOf(p[1], p[2])} :
        \E a \in {NewAddr(heap, <<key, "source_tables">>)}, b \in {NewAddr(heap, <<key, "source_fields">>)} :
          \E r \in {add_lineage(lineage_db, Put(Put(heap, a, ListObj(st)), b, ListObj(sf)), p[1], p[2], a, b, jc)} :
            \E live \in {Collect(r.heap, r.db, <<a, b>>, PyNone)} :
              \E name \in {Renaming(DOMAIN live)} :
                /\ lineage_db' = RenameMap(r.db, name)
                /\ heap' = RenameHeap(live, name)
                /\ ret' = PyNone
                /\ call' = Call("add_lineage", "", p[1], p[2],
                                PyRef(name[a]), PyRef(name[b]), jc, <<>>)
                /\ latest' = Put(latest, key, Declared(st, sf, jc))
                /\ UNCHANGED <<database, tasks>>

(* st.append(x) on the list the caller passed as source_tables *)
ArgumentAppend(names) ==
    /\ call.op \in {"add_lineage", "source_tables.append(x)"}
    /\ \E x \in names :
         /\ Len(Elems(heap, call.source_tables.addr)) < MaxElems
         /\ heap' = append(heap, call.source_tables.addr, x)
         /\ call' = [call EXCEPT !.op = "source_tables.append(x)"]
         /\ UNCHANGED <<lineage_db, ret, latest, database, tasks>>

(* record = field_tracker.get_lineage(t, f); record["join_condition"] = jc *)
LookupAssign(jcs) ==
    /\ ret.t = "ref"
    /\ \E jc \in jcs :
         /\ heap' = setitem(heap, ret.addr, "join_condition", jc)
         /\ call' = Call("record[name] = value", "", <<>>, <<>>, <<>>, <<>>, jc, <<>>)
         /\ UNCHANGED <<lineage_db, ret, latest, database, tasks>>

(* record["source_fields"].append(x) on a record get_lineage returned *)
LookupAppend(names) ==
    /\ ret.t = "ref"
    /\ \E x \in names :
         /\ Len(Elems(heap, heap[ret.addr].items.source_fields)) < MaxElems
         /\ heap' = append(heap, heap[ret.addr].items.source_fields, x)
         /\ call' = Call("record[name].append(x)", "", <<>>, <<>>, <<>>, <<>>, <<>>, <<>>)
         /\ UNCHANGED <<lineage_db, ret, latest, database, tasks>>

NextOwner ==
    \/ AddLineage(OwnerPairs, {<<txt_line_items>>}, {<<txt_amount>>}, {txt_sum})
    \/ GetLineage(OwnerPairs)
    \/ ClearLineage
    \/ ArgumentAppend({txt_customers})
    \/ LookupAssign({<<>>})
    \/ LookupAppend({txt_discount})

SpecOwner == Init /\ [][NextOwner]_vars

(***************************************************************************)
(* Properties of the ownership of records, under SpecOwner                 *)
(***************************************************************************)

(* C12 as stated: what get_lineage shows for a pair changes only in a step *)
(* that declares that pair's key or clears the registry; no change a       *)
(* caller makes to the lists it passed or to a record it looked up shows   *)
(* in a later lookup.                                                      *)
C12_ChangesOnlyByDeclareOrClear ==
    [][\A p \in OwnerPairs :
          LookupResult(lineage_db', heap', p) # LookupResult(lineage_db, heap, p)
          => \/ call'.op = "clear_lineage"
             \/ /\ call'.op = "add_lineage"
                /\ KeyOf(call'.table, call'.field) = PairKey(p)]_vars

(***************************************************************************)
(* Declarations whose two source lists differ in length: the specification *)
(* SpecPairing                                                             *)
(***************************************************************************)

(* the longest source list of a declaration *)
MaxPairLen == 2

PairingPairs == {<<txt_orders, txt_total>>, <<txt_products, txt_price>>}

NextPairing ==
    \/ AddFieldLineage(PairingPairs, Prefixes(SrcTableNames, MaxPairLen),
                       Prefixes(SrcFieldNames, MaxPairLen), {<<>>})
    \/ TraceFieldLineage(PairingPairs)

SpecPairing == Init /\ [][NextPairing]_vars

(***************************************************************************)
(* Properties of the pairing of sources, under SpecPairing                 *)
(***************************************************************************)

(* source_tables[i] + "." + source_fields[i] for the first n positions *)
SourcePairs(source_tables, source_fields, n) ==
    [i \in 1..n |-> source_tables[i] \o <<".">> \o source_fields[i]]

(* C13: the confirmation of add_field_lineage lists the pairs              *)
(* source_tables[i].source_fields[i] up to the shorter of the two lists,   *)
(* in order; trace_field_lineage has one "source.field -> target.field"    *)
(* line for each of them and no other; the record holds both lists in      *)
(* full.                                                                   *)
C13_PairingStopsAtShorter ==
    LET shorter(d) == Min({Len(d.source_tables), Len(d.source_fields)})
        lines(d, n) ==
            \A i \in 1..n :
                Occurrences(ret.s,
                            <<" ", " ">> \o d.source_tables[i] \o <<".">>
                            \o d.source_fields[i] \o msg_arrow \o CallKey
                            \o <<"\n">>) = 1
    IN  /\ call.op = "add_field_lineage"
           => /\ ret = PyStr(msg_lineage_added \o CallKey \o msg_from
                             \o join(CommaSpace,
                                     SourcePairs(call.source_tables,
                                                 call.source_fields,
                                                 shorter(call))))
              /\ RecordValue(heap, lineage_db[CallKey]).source_tables
                     = call.source_tables
              /\ RecordValue(heap, lineage_db[CallKey]).source_fields
                     = call.source_fields
        /\ (call.op = "trace_field_lineage" /\ CallKey \in DOMAIN latest)
           => /\ ret.t = "str"
              /\ Occurrences(ret.s, msg_arrow) = shorter(latest[CallKey])
              /\ lines(latest[CallKey], shorter(latest[CallKey]))

(* a trace of a record declared with two source tables and one source      *)
(* field: one data-flow line                                               *)
C13_Witness ==
    /\ call.op = "trace_field_lineage"
    /\ CallKey \in DOMAIN latest
    /\ Len(latest[CallKey].source_tables) = 2
    /\ Len(latest[CallKey].source_fields) = 1
    /\ Occurrences(ret.s, msg_arrow) = 1

(***************************************************************************)
(* class ConnectionManager (src/database/connection_manager.py) and the    *)
(* part of sqlite3 it uses.  sqlite.conns holds every Connection object    *)
(* created so far, a connection being named by its position; sqlite.files  *)
(* holds the committed content of each database file.                      *)
(***************************************************************************)

(* most Connection objects created in a behaviour *)
MaxConns == 3

(* 'a.db' *)
path_a ==
    <<"a", ".", "d", "b">>

(* 'data/b.db' *)
path_b ==
    <<"d", "a", "t", "a", "/", "b", ".", "d", "b">>

DbPaths == {path_a, path_b}

(* 'unable to open database file' *)
msg_unable_to_open ==
    <<"u", "n", "a", "b", "l", "e", " ", "t", "o", " ", "o", "p", "e", "n", " ", "d", "a", "t", "a", "b", "a", "s", "e", " ", "f", "i", "l", "e">>

(* a reference to the Connection object at position id *)
PyConn(id) == [t |-> "conn", id |-> id]

(* a new Connection: open, no transaction in progress *)
Connection(db_path) == [path |-> db_path, open |-> TRUE, work |-> PyNone]

(* sqlite3.connect(db_path, check_same_thread=False) and row_factory: the  *)
(* new object is appended; `fails` is the library failing to open the file *)
sqlite3_connect(sq, db_path, fails) ==
    IF fails
    THEN [sqlite |-> sq, ret |-> PyRaise(msg_unable_to_open)]
    ELSE [sqlite |-> [sq EXCEPT !.conns = Append(@, Connection(db_path))],
          ret    |-> PyConn(Len(sq.conns) + 1)]

(* Connection.close(): the transaction in progress, if any, is lost *)
sqlite3_close(sq, id) ==
    [sq EXCEPT !.conns[id].open = FALSE, !.conns[id].work = PyNone]

(* ConnectionManager.get_connection *)
get_connection(cache, sq, db_path, fails) ==
    IF db_path \notin DOMAIN cache
    THEN LET made(r) ==
                 IF r.ret.t = "raise"
                 THEN [connections |-> cache, sqlite |-> r.sqlite, ret |-> r.ret]
                 ELSE [connections |-> Put(cache, db_path, r.ret.id),
                       sqlite      |-> r.sqlite,
                       ret         |-> PyConn(r.ret.id)]
         IN  made(sqlite3_connect(sq, db_path, fails))
    ELSE [connections |-> cache, sqlite |-> sq, ret |-> PyConn(cache[db_path])]

(* close_connection that closes the connection and keeps its cache entry *)
close_connection_keeps_entry(cache, sq, db_path) ==
    IF db_path \in DOMAIN cache
    THEN [connections |-> cache, sqlite |-> sqlite3_close(sq, cache[db_path])]
    ELSE [connections |-> cache, sqlite |-> sq]

(* ConnectionManager.close_connection *)
close_connection(cache, sq, db_path) ==
    IF db_path \in DOMAIN cache
    THEN [connections |-> Restrict(cache, DOMAIN cache \ {db_path}),
          sqlite      |-> sqlite3_close(sq, cache[db_path])]
    ELSE [connections |-> cache, sqlite |-> sq]

(* for conn in self.connections.values(): conn.close() *)
RECURSIVE close_each(_, _)
close_each(sq, ids) ==
    IF ids = {} THEN sq
    ELSE LET id == CHOOSE x \in ids : TRUE
         IN  close_each(sqlite3_close(sq, id), ids \ {id})

(* ConnectionManager.close_all_connections *)
close_all_connections(cache, sq) ==
    [connections |-> EmptyMap,
     sqlite      |-> close_each(sq, {cache[p] : p \in DOMAIN cache})]

(* a call of a ConnectionManager method or of a database tool *)
DbCall(op, db_path, cached) == [op |-> op, db_path |-> db_path, cached |-> cached]

(* conn_manager.get_connection(db_path).  cached: whether the path was in  *)
(* the cache.                                                              *)
GetConnection(paths) ==
    \E p \in paths, fails \in BOOLEAN :
      /\ p \notin DOMAIN connections => Len(sqlite.conns) < MaxConns
      /\ \E r \in {get_connection(connections, sqlite, p, fails)} :
           /\ connections' = r.connections
           /\ sqlite' = r.sqlite
           /\ ret' = r.ret
           /\ call' = DbCall("get_connection", p, p \in DOMAIN connections)
           /\ UNCHANGED <<registry, tasks>>

(* conn_manager.close_connection(db_path) *)
CloseConnection(paths) ==
    \E p \in paths :
      \E r \in {close_connection(connections, sqlite, p)} :
        /\ connections' = r.connections
        /\ sqlite' = r.sqlite
        /\ ret' = PyNone
        /\ call' = DbCall("close_connection", p, p \in DOMAIN connections)
        /\ UNCHANGED <<registry, tasks>>

(* conn_manager.close_all_connections() *)
CloseAllConnections ==
    \E r \in {close_all_connections(connections, sqlite)} :
        /\ connections' = r.connections
        /\ sqlite' = r.sqlite
        /\ ret' = PyNone
        /\ call' = DbCall("close_all_connections", <<>>, connections # EmptyMap)
        /\ UNCHANGED <<registry, tasks>>

NextConnections ==
    \/ GetConnection(DbPaths)
    \/ CloseConnection(DbPaths)
    \/ CloseAllConnections

SpecConnections == Init /\ [][NextConnections]_vars

(***************************************************************************)
(* Properties of the connection cache, under SpecConnections               *)
(***************************************************************************)

(* every cached connection is open and was opened for its key, and no      *)
(* connection is cached under two paths                                    *)
CacheConsistent(cache, sq) ==
    /\ \A p \in DOMAIN cache :
          /\ cache[p] \in 1..Len(sq.conns)
          /\ sq.conns[cache[p]].open
          /\ sq.conns[cache[p]].path = p
    /\ \A p, q \in DOMAIN cache : cache[p] = cache[q] => p = q

(* C20: the cache holds one open connection per cached path and no closed  *)
(* one; a get_connection that returns gives the cached connection of the   *)
(* path when there is one and a connection that did not exist before when  *)
(* there is none (so after the path was closed), open in both cases and    *)
(* cached from then on; a failed open leaves the cache as it was;          *)
(* close_connection of a path that is not cached changes nothing.          *)
C20_CacheHoldsOpenConnections ==
    [][/\ CacheConsistent(connections', sqlite')
       /\ (call'.op = "get_connection" /\ ret'.t = "conn")
          => /\ sqlite'.conns[ret'.id].open
             /\ connections'[call'.db_path] = ret'.id
             /\ IF call'.db_path \in DOMAIN connections
                THEN ret'.id = connections[call'.db_path]
                ELSE ret'.id \notin 1..Len(sqlite.conns)
       /\ (call'.op = "get_connection" /\ ret'.t = "raise")
          => connections' = connections
       /\ (call'.op = "close_connection" /\ call'.db_path \notin DOMAIN connections)
          => (connections' = connections /\ sqlite' = sqlite)]_vars

(* get_connection has returned a new, open connection for a path whose     *)
(* earlier connection was closed, while the other path stays cached        *)
C20_Witness ==
    /\ call.op = "get_connection"
    /\ ret.t = "conn"
    /\ ~call.cached
    /\ \E id \in 1..Len(sqlite.conns) :
          /\ id # ret.id
          /\ sqlite.conns[id].path = call.db_path
          /\ ~sqlite.conns[id].open
    /\ Cardinality(DOMAIN connections) = 2

(***************************************************************************)
(* The statements the database tools send to sqlite3.  A database is a     *)
(* function from table names to numbers of rows (the values in the rows    *)
(* are not modelled).  A connection in a transaction reads and writes its  *)
(* working copy `work`; commit makes the working copy the file's content.  *)
(***************************************************************************)

(* most rows of a table *)
MaxRows == 2

(* 't' *)
tbl_t ==
    <<"t">>

(* 'disk I/O error' *)
msg_disk_io ==
    <<"d", "i", "s", "k", " ", "I", "/", "O", " ", "e", "r", "r", "o", "r">>

(* 'no such table: ' *)
msg_no_such_table ==
    <<"n", "o", " ", "s", "u", "c", "h", " ", "t", "a", "b", "l", "e", ":", " ">>

(* 'table ' *)
msg_already_exists_1 ==
    <<"t", "a", "b", "l", "e", " ">>

(* ' already exists' *)
msg_already_exists_2 ==
    <<" ", "a", "l", "r", "e", "a", "d", "y", " ", "e", "x", "i", "s", "t", "s">>

(* 'near "SELEC": syntax error' *)
msg_syntax_error ==
    <<"n", "e", "a", "r", " ", "\"", "S", "E", "L", "E", "C", "\"", ":", " ", "s", "y", "n", "t", "a", "x", " ", "e", "r", "r", "o", "r">>

(* 'Cannot operate on a closed database.' *)
msg_closed_database ==
    <<"C", "a", "n", "n", "o", "t", " ", "o", "p", "e", "r", "a", "t", "e", " ", "o", "n", " ", "a", " ", "c", "l", "o", "s", "e", "d", " ", "d", "a", "t", "a", "b", "a", "s", "e", ".">>

(* the committed content of the database file at db_path *)
Content(sq, db_path) ==
    IF db_path \in DOMAIN sq.files THEN sq.files[db_path] ELSE EmptyMap

(* the working copy of a transaction in progress *)
PyWork(content) == [t |-> "work", content |-> content]

(* what the connection reads: its working copy when it is in a transaction *)
View(sq, id) ==
    IF sq.conns[id].work.t = "work" THEN sq.conns[id].work.content
    ELSE Content(sq, sq.conns[id].path)

(* a statement: kind, the table it names, the rows it inserts *)
Stmt(kind, table, rows) == [kind |-> kind, table |-> table, rows |-> rows]

(* a cursor after execute: the rows to fetch and cursor.rowcount as text *)
PyCursor(rows, rowcount) == [t |-> "cursor", rows |-> rows, rowcount |-> rowcount]

(* the table names of a database, as sqlite_master lists them *)
RECURSIVE TableList(_)
TableList(names) ==
    IF names = {} THEN <<>>
    ELSE LET n == CHOOSE x \in names : TRUE
         IN  <<n>> \o TableList(names \ {n})

DigitChars == <<"0", "1", "2", "3", "4", "5", "6", "7", "8", "9">>

(* str(n) for a number n >= 0 *)
RECURSIVE str_int(_)
str_int(n) ==
    IF n < 10 THEN <<DigitChars[n + 1]>>
    ELSE str_int(n \div 10) \o <<DigitChars[(n % 10) + 1]>>

(* a write outside a transaction begins one (sqlite3's implicit BEGIN);    *)
(* inside a transaction it changes the working copy                        *)
Written(sq, id, content) == [sq EXCEPT !.conns[id].work = PyWork(content)]

(* CREATE TABLE outside a transaction is committed at once; inside a       *)
(* transaction it is part of it                                            *)
Created(sq, id, table) ==
    IF sq.conns[id].work.t = "work"
    THEN Written(sq, id, Put(View(sq, id), table, 0))
    ELSE [sq EXCEPT !.files = Put(@, sq.conns[id].path,
                                  Put(Content(sq, sq.conns[id].path), table, 0))]

(* cursor.execute / cursor.executemany of one statement on connection id *)
sqlite3_execute(sq, id, stmt) ==
    LET view    == View(sq, id)
        exists  == stmt.table \in DOMAIN view
        missing == [sqlite |-> sq, ret |-> PyRaise(msg_no_such_table \o stmt.table)]
    IN  IF ~sq.conns[id].open
        THEN [sqlite |-> sq, ret |-> PyRaise(msg_closed_database)]
        ELSE IF stmt.kind = "sqlite_master"
        THEN [sqlite |-> sq, ret |-> PyCursor(TableList(DOMAIN view), <<"-", "1">>)]
        ELSE IF stmt.kind = "table_info"
        THEN [sqlite |-> sq,
              ret    |-> PyCursor(IF exists THEN <<<<"x">>>> ELSE <<>>, <<"-", "1">>)]
        ELSE IF stmt.kind = "count"
        THEN IF exists
             THEN [sqlite |-> sq, ret |-> PyCursor(<<view[stmt.table]>>, <<"-", "1">>)]
             ELSE missing
        ELSE IF stmt.kind = "select"
        THEN IF exists
             THEN [sqlite |-> sq,
                   ret    |-> PyCursor([k \in 1..view[stmt.table] |-> k], <<"-", "1">>)]
             ELSE missing
        ELSE IF stmt.kind = "insert"
        THEN IF exists
             THEN [sqlite |-> Written(sq, id, [view EXCEPT ![stmt.table] = @ + stmt.rows]),
                   ret    |-> PyCursor(<<>>, str_int(stmt.rows))]
             ELSE missing
        ELSE IF stmt.kind = "create"
        THEN IF exists
             THEN [sqlite |-> sq,
                   ret    |-> PyRaise(msg_already_exists_1 \o stmt.table
                                      \o msg_already_exists_2)]
             ELSE [sqlite |-> Created(sq, id, stmt.table),
                   ret    |-> PyCursor(<<>>, <<"-", "1">>)]
        ELSE IF stmt.kind = "create_if_not_exists"
        THEN [sqlite |-> IF exists THEN sq ELSE Created(sq, id, stmt.table),
              ret    |-> PyCursor(<<>>, <<"-", "1">>)]
        ELSE [sqlite |-> sq, ret |-> PyRaise(msg_syntax_error)]

(* Connection.commit() *)
sqlite3_commit(sq, id) ==
    IF sq.conns[id].work.t = "work"
    THEN [sq EXCEPT !.files = Put(@, sq.conns[id].path, sq.conns[id].work.content),
                    !.conns[id].work = PyNone]
    ELSE sq

(***************************************************************************)
(* The database tools: DatabaseOperations (src/database/operations.py),    *)
(* ImportExportUtils (src/utils/import_export.py) and DataGenerator        *)
(* (src/utils/data_generator.py).  The body of a tool's `try:` is a chain  *)
(* of steps on a context c; a step after an exception was raised does      *)
(* nothing.  c.log lists the calls made to sqlite3, in order, with whether *)
(* each failed; c.fault is the position of the call that the library fails *)
(* for a reason of its own (0: none).                                      *)
(***************************************************************************)

(* 'Successfully connected to database: ' *)
msg_connected ==
    <<"S", "u", "c", "c", "e", "s", "s", "f", "u", "l", "l", "y", " ", "c",
      "o", "n", "n", "e", "c", "t", "e", "d", " ", "t", "o", " ", "d", "a",
      "t", "a", "b", "a", "s", "e", ":", " ">>

(* '\nTables found: ' *)
msg_tables_found ==
    <<"\n", "T", "a", "b", "l", "e", "s", " ", "f", "o", "u", "n", "d", ":",
      " ">>

(* '\nNo tables found in database.' *)
msg_no_tables_found ==
    <<"\n", "N", "o", " ", "t", "a", "b", "l", "e", "s", " ", "f", "o", "u",
      "n", "d", " ", "i", "n", " ", "d", "a", "t", "a", "b", "a", "s", "e",
      ".">>

(* 'Error connecting to database: ' *)
msg_error_connecting ==
    <<"E", "r", "r", "o", "r", " ", "c", "o", "n", "n", "e", "c", "t", "i",
      "n", "g", " ", "t", "o", " ", "d", "a", "t", "a", "b", "a", "s", "e",
      ":", " ">>

(* 'Query executed successfully.\nResults:\n' *)
msg_query_results ==
    <<"Q", "u", "e", "r", "y", " ", "e", "x", "e", "c", "u", "t", "e", "d",
      " ", "s", "u", "c", "c", "e", "s", "s", "f", "u", "l", "l", "y", ".",
      "\n", "R", "e", "s", "u", "l", "t", "s", ":", "\n">>

(* 'Query executed successfully. No results returned.' *)
msg_query_no_results ==
    <<"Q", "u", "e", "r", "y", " ", "e", "x", "e", "c", "u", "t", "e", "d",
      " ", "s", "u", "c", "c", "e", "s", "s", "f", "u", "l", "l", "y", ".",
      " ", "N", "o", " ", "r", "e", "s", "u", "l", "t", "s", " ", "r", "e",
      "t", "u", "r", "n", "e", "d", ".">>

(* 'Query executed successfully. ' *)
msg_query_executed ==
    <<"Q", "u", "e", "r", "y", " ", "e", "x", "e", "c", "u", "t", "e", "d",
      " ", "s", "u", "c", "c", "e", "s", "s", "f", "u", "l", "l", "y", ".",
      " ">>

(* ' rows affected.' *)
msg_rows_affected ==
    <<" ", "r", "o", "w", "s", " ", "a", "f", "f", "e", "c", "t", "e", "d",
      ".">>

(* 'Error executing query: ' *)
msg_error_executing ==
    <<"E", "r", "r", "o", "r", " ", "e", "x", "e", "c", "u", "t", "i", "n",
      "g", " ", "q", "u", "e", "r", "y", ":", " ">>

(* "Table '" *)
msg_table_quote ==
    <<"T", "a", "b", "l", "e", " ", "'">>

(* "' not found." *)
msg_not_found ==
    <<"'", " ", "n", "o", "t", " ", "f", "o", "u", "n", "d", ".">>

(* 'Table: ' *)
msg_table_colon ==
    <<"T", "a", "b", "l", "e", ":", " ">>

(* '\nRow count: ' *)
msg_row_count ==
    <<"\n", "R", "o", "w", " ", "c", "o", "u", "n", "t", ":", " ">>

(* '\nColumns:\n' *)
msg_columns ==
    <<"\n", "C", "o", "l", "u", "m", "n", "s", ":", "\n">>

(* 'Error describing table: ' *)
msg_error_describing ==
    <<"E", "r", "r", "o", "r", " ", "d", "e", "s", "c", "r", "i", "b", "i",
      "n", "g", " ", "t", "a", "b", "l", "e", ":", " ">>

(* 'Successfully generated and inserted ' *)
msg_generated ==
    <<"S", "u", "c", "c", "e", "s", "s", "f", "u", "l", "l", "y", " ", "g",
      "e", "n", "e", "r", "a", "t", "e", "d", " ", "a", "n", "d", " ", "i",
      "n", "s", "e", "r", "t", "e", "d", " ">>

(* ' rows into ' *)
msg_rows_into ==
    <<" ", "r", "o", "w", "s", " ", "i", "n", "t", "o", " ">>

(* 'Error generating data: ' *)
msg_error_generating ==
    <<"E", "r", "r", "o", "r", " ", "g", "e", "n", "e", "r", "a", "t", "i",
      "n", "g", " ", "d", "a", "t", "a", ":", " ">>

(* 'CSV file not found: ' *)
msg_csv_not_found ==
    <<"C", "S", "V", " ", "f", "i", "l", "e", " ", "n", "o", "t", " ", "f",
      "o", "u", "n", "d", ":", " ">>

(* 'CSV file is empty' *)
msg_csv_empty ==
    <<"C", "S", "V", " ", "f", "i", "l", "e", " ", "i", "s", " ", "e", "m",
      "p", "t", "y">>

(* 'Successfully imported ' *)
msg_imported ==
    <<"S", "u", "c", "c", "e", "s", "s", "f", "u", "l", "l", "y", " ", "i",
      "m", "p", "o", "r", "t", "e", "d", " ">>

(* ' rows from ' *)
msg_rows_from ==
    <<" ", "r", "o", "w", "s", " ", "f", "r", "o", "m", " ">>

(* ' into ' *)
msg_into ==
    <<" ", "i", "n", "t", "o", " ">>

(* 'Error importing CSV: ' *)
msg_error_importing ==
    <<"E", "r", "r", "o", "r", " ", "i", "m", "p", "o", "r", "t", "i", "n",
      "g", " ", "C", "S", "V", ":", " ">>

(* 'Could not determine delimiter' *)
msg_no_delimiter ==
    <<"C", "o", "u", "l", "d", " ", "n", "o", "t", " ", "d", "e", "t", "e",
      "r", "m", "i", "n", "e", " ", "d", "e", "l", "i", "m", "i", "t", "e",
      "r">>

(* 'Table ' *)
msg_table_space ==
    <<"T", "a", "b", "l", "e", " ">>

(* ' is empty' *)
msg_is_empty ==
    <<" ", "i", "s", " ", "e", "m", "p", "t", "y">>

(* 'Successfully exported ' *)
msg_exported ==
    <<"S", "u", "c", "c", "e", "s", "s", "f", "u", "l", "l", "y", " ", "e",
      "x", "p", "o", "r", "t", "e", "d", " ">>

(* ' to ' *)
msg_to ==
    <<" ", "t", "o", " ">>

(* 'Error exporting table: ' *)
msg_error_exporting ==
    <<"E", "r", "r", "o", "r", " ", "e", "x", "p", "o", "r", "t", "i", "n",
      "g", " ", "t", "a", "b", "l", "e", ":", " ">>

(* '[Errno 13] Permission denied: ' *)
msg_permission_denied ==
    <<"[", "E", "r", "r", "n", "o", " ", "1", "3", "]", " ", "P", "e", "r",
      "m", "i", "s", "s", "i", "o", "n", " ", "d", "e", "n", "i", "e", "d",
      ":", " ">>

(* 'in.csv' *)
csv_in ==
    <<"i", "n", ".", "c", "s", "v">>

(* 'out.csv' *)
csv_out ==
    <<"o", "u", "t", ".", "c", "s", "v">>

(* 'SELECT * FROM t' *)
q_db_select ==
    <<"S", "E", "L", "E", "C", "T", " ", "*", " ", "F", "R", "O", "M", " ",
      "t">>

(* ' select * from t' *)
q_db_select_lower ==
    <<" ", "s", "e", "l", "e", "c", "t", " ", "*", " ", "f", "r", "o", "m",
      " ", "t">>

(* 'INSERT INTO t (x) VALUES (1)' *)
q_db_insert ==
    <<"I", "N", "S", "E", "R", "T", " ", "I", "N", "T", "O", " ", "t", " ",
      "(", "x", ")", " ", "V", "A", "L", "U", "E", "S", " ", "(", "1", ")">>

(* 'CREATE TABLE t (x INTEGER)' *)
q_db_create ==
    <<"C", "R", "E", "A", "T", "E", " ", "T", "A", "B", "L", "E", " ", "t",
      " ", "(", "x", " ", "I", "N", "T", "E", "G", "E", "R", ")">>

(* 'SELEC 1' *)
q_db_misspelt ==
    <<"S", "E", "L", "E", "C", " ", "1">>

(* json.dumps(..., indent=2) of the fetched rows, one object per row; the  *)
(* values in the rows are not modelled                                     *)
json_dumps(rows) ==
    <<"[">> \o join(<<",">>, [k \in 1..Len(rows) |-> <<"{", "}">>]) \o <<"]">>

Ctx(cache, sq, fault) ==
    [connections |-> cache, sqlite |-> sq, fault |-> fault, log |-> <<>>,
     raised |-> PyNone, conn |-> 0, out |-> PyNone]

Raised(c) == c.raised.t = "raise"

(* the log of c with one more call to sqlite3 *)
Attempted(c, stmt, failed) == Append(c.log, [stmt |-> stmt, failed |-> failed])

(* the next call to sqlite3 is the one that fails on its own *)
FaultNow(c) == Len(c.log) + 1 = c.fault

(* conn = self.conn_manager.get_connection(db_path); cursor = conn.cursor() *)
Connect(c, db_path) ==
    LET got(r) ==
            IF r.ret.t = "raise"
            THEN [c EXCEPT !.raised = r.ret,
                           !.log = Attempted(c, Stmt("connect", db_path, 0), TRUE)]
            ELSE [c EXCEPT !.connections = r.connections,
                           !.sqlite = r.sqlite,
                           !.conn = r.ret.id,
                           !.log = IF db_path \in DOMAIN c.connections THEN @
                                   ELSE Attempted(c, Stmt("connect", db_path, 0), FALSE)]
    IN  IF Raised(c) THEN c
        ELSE got(get_connection(c.connections, c.sqlite, db_path, FaultNow(c)))

(* cursor.execute(...) / cursor.executemany(...) *)
Execute(c, stmt) ==
    LET ran(r) ==
            IF r.ret.t = "raise"
            THEN [c EXCEPT !.raised = r.ret, !.log = Attempted(c, stmt, TRUE)]
            ELSE [c EXCEPT !.sqlite = r.sqlite, !.out = r.ret,
                           !.log = Attempted(c, stmt, FALSE)]
    IN  IF Raised(c) THEN c
        ELSE IF FaultNow(c)
        THEN [c EXCEPT !.raised = PyRaise(msg_disk_io),
                       !.log = Attempted(c, stmt, TRUE)]
        ELSE ran(sqlite3_execute(c.sqlite, c.conn, stmt))

(* cursor.fetchall() / cursor.fetchone() *)
Fetch(c) ==
    IF Raised(c) THEN c
    ELSE IF FaultNow(c)
    THEN [c EXCEPT !.raised = PyRaise(msg_disk_io),
                   !.log = Attempted(c, Stmt("fetch", <<>>, 0), TRUE)]
    ELSE [c EXCEPT !.log = Attempted(c, Stmt("fetch", <<>>, 0), FALSE)]

(* conn.commit() *)
Commit(c) ==
    IF Raised(c) THEN c
    ELSE IF FaultNow(c)
    THEN [c EXCEPT !.raised = PyRaise(msg_disk_io),
                   !.log = Attempted(c, Stmt("commit", <<>>, 0), TRUE)]
    ELSE [c EXCEPT !.sqlite = sqlite3_commit(c.sqlite, c.conn),
                   !.log = Attempted(c, Stmt("commit", <<>>, 0), FALSE)]

(* an exception of the tool's own code inside the try block *)
Raise(c, msg) == IF Raised(c) THEN c ELSE [c EXCEPT !.raised = PyRaise(msg)]

(* a tool without its except clause: the exception leaves the tool *)
Result_propagates(c, prefix, value) ==
    [connections |-> c.connections, sqlite |-> c.sqlite, log |-> c.log,
     ret |-> IF Raised(c) THEN c.raised ELSE value]

(* try: ... return value / except Exception as e: return prefix + str(e) *)
Result(c, prefix, value) ==
    [connections |-> c.connections, sqlite |-> c.sqlite, log |-> c.log,
     ret |-> IF Raised(c) THEN PyStr(prefix \o c.raised.msg) ELSE value]

(* DatabaseOperations.connect_database *)
connect_database(cache, sq, db_path, fault) ==
    LET done(c) ==
            Result(c, msg_error_connecting,
                   IF c.out.rows # <<>>
                   THEN PyStr(msg_connected \o db_path \o msg_tables_found
                              \o join(CommaSpace, c.out.rows))
                   ELSE PyStr(msg_connected \o db_path \o msg_no_tables_found))
    IN  done(Fetch(Execute(Connect(Ctx(cache, sq, fault), db_path),
                           Stmt("sqlite_master", <<>>, 0))))

(* the statement sqlite3 makes of a query text *)
Parse(query) ==
    IF query \in {q_db_select, q_db_select_lower} THEN Stmt("select", tbl_t, 0)
    ELSE IF query = q_db_insert THEN Stmt("insert", tbl_t, 1)
    ELSE IF query = q_db_create THEN Stmt("create", tbl_t, 0)
    ELSE Stmt("syntax error", <<>>, 0)

(* query.strip().upper().startswith('SELECT') *)
IsSelect(query) == StartsAt(upper(strip(query)), 1, kw_SELECT)

(* DatabaseOperations.execute_query; params only binds values *)
execute_query(cache, sq, db_path, query, fault) ==
    LET done(c) ==
            Result(c, msg_error_executing,
                   IF IsSelect(query)
                   THEN IF c.out.rows # <<>>
                        THEN PyStr(msg_query_results \o json_dumps(c.out.rows))
                        ELSE PyStr(msg_query_no_results)
                   ELSE PyStr(msg_query_executed \o c.out.rowcount
                              \o msg_rows_affected))
        after(c) == done(IF IsSelect(query) THEN Fetch(c) ELSE Commit(c))
    IN  after(Execute(Connect(Ctx(cache, sq, fault), db_path), Parse(query)))

(* DatabaseOperations.describe_table *)
describe_table(cache, sq, db_path, table_name, fault) ==
    LET counted(c, columns) ==
            Result(c, msg_error_describing,
                   PyStr(msg_table_colon \o table_name \o msg_row_count
                         \o str_int(c.out.rows[1]) \o msg_columns
                         \o json_dumps(columns)))
        described(c) ==
            IF ~Raised(c) /\ c.out.rows = <<>>
            THEN Result(c, msg_error_describing,
                        PyStr(msg_table_quote \o table_name \o msg_not_found))
            ELSE counted(Fetch(Execute(c, Stmt("count", table_name, 0))),
                         IF Raised(c) THEN <<>> ELSE c.out.rows)
    IN  described(Fetch(Execute(Connect(Ctx(cache, sq, fault), db_path),
                                Stmt("table_info", table_name, 0))))

(* DataGenerator.generate_sample_data *)
generate_sample_data(cache, sq, db_path, table_name, num_rows, fault) ==
    LET inserted(c) ==
            Result(c, msg_error_generating,
                   PyStr(msg_generated \o str_int(num_rows) \o msg_rows_into
                         \o table_name))
        described(c) ==
            IF ~Raised(c) /\ c.out.rows = <<>>
            THEN Result(c, msg_error_generating,
                        PyStr(msg_table_quote \o table_name \o msg_not_found))
            ELSE inserted(Commit(Execute(c, Stmt("insert", table_name, num_rows))))
    IN  described(Fetch(Execute(Connect(Ctx(cache, sq, fault), db_path),
                                Stmt("table_info", table_name, 0))))

(* a CSV file: "missing", "blank" (the sniffer finds no delimiter),        *)
(* "header" (a header line and no row) or "rows" with that many rows       *)
CsvFile(kind, rows) == [kind |-> kind, rows |-> rows]

(* for row in rows: cursor.execute(insert_query, values) *)
RECURSIVE InsertRows(_, _, _)
InsertRows(c, table_name, n) ==
    IF n = 0 THEN c
    ELSE InsertRows(Execute(c, Stmt("insert", table_name, 1)), table_name, n - 1)

(* ImportExportUtils.import_csv *)
import_csv(cache, sq, db_path, csv_path, csv, table_name, create_table, fault) ==
    LET imported(c) ==
            Result(c, msg_error_importing,
                   PyStr(msg_imported \o str_int(csv.rows) \o msg_rows_from
                         \o csv_path \o msg_into \o table_name))
        created(c) == imported(Commit(InsertRows(c, table_name, csv.rows)))
        read(c) ==
            IF csv.kind = "blank"
            THEN Result(Raise(c, msg_no_delimiter), msg_error_importing, PyNone)
            ELSE IF ~Raised(c) /\ csv.kind = "header"
            THEN Result(c, msg_error_importing, PyStr(msg_csv_empty))
            ELSE created(IF create_table
                         THEN Execute(c, Stmt("create_if_not_exists", table_name, 0))
                         ELSE c)
    IN  IF csv.kind = "missing"
        THEN Result(Ctx(cache, sq, fault), msg_error_importing,
                    PyStr(msg_csv_not_found \o csv_path))
        ELSE read(Connect(Ctx(cache, sq, fault), db_path))

(* ImportExportUtils.export_table_to_csv; writable: whether output_path    *)
(* can be opened for writing                                               *)
export_table_to_csv(cache, sq, db_path, table_name, output_path, writable, fault) ==
    LET written(c, rows) ==
            Result(c, msg_error_exporting,
                   PyStr(msg_exported \o str_int(Len(rows)) \o msg_rows_from
                         \o table_name \o msg_to \o output_path))
        fetched(c) ==
            IF ~Raised(c) /\ c.out.rows = <<>>
            THEN Result(c, msg_error_exporting,
                        PyStr(msg_table_space \o table_name \o msg_is_empty))
            ELSE written(IF writable THEN c
                         ELSE Raise(c, msg_permission_denied \o <<"'">>
                                       \o output_path \o <<"'">>),
                         IF Raised(c) THEN <<>> ELSE c.out.rows)
    IN  fetched(Fetch(Execute(Connect(Ctx(cache, sq, fault), db_path),
                              Stmt("select", table_name, 0))))

(***************************************************************************)
(* The database tools as steps: the specification SpecDatabase             *)
(***************************************************************************)

(* the positions at which a call to sqlite3 may fail; 0: no call fails *)
Faults == 0..(MaxRows + 4)

DbQueries == {q_db_select, q_db_select_lower, q_db_insert, q_db_create, q_db_misspelt}

CsvFiles ==
    {CsvFile("missing", 0), CsvFile("blank", 0), CsvFile("header", 0)}
        \cup {CsvFile("rows", n) : n \in 1..MaxRows}

(* no table has more than MaxRows rows, committed or not *)
WithinBounds(sq) ==
    /\ Len(sq.conns) <= MaxConns
    /\ \A p \in DOMAIN sq.files :
          \A t \in DOMAIN sq.files[p] : sq.files[p][t] <= MaxRows
    /\ \A id \in 1..Len(sq.conns) :
          \A t \in DOMAIN View(sq, id) : View(sq, id)[t] <= MaxRows

(* a call of a database tool and the calls it made to sqlite3 *)
ToolCall(op, db_path, log) == [op |-> op, db_path |-> db_path, log |-> log]

(* the connect_database tool *)
ConnectDatabase(paths) ==
    \E p \in paths, fault \in Faults :
      \E r \in {connect_database(connections, sqlite, p, fault)} :
        /\ WithinBounds(r.sqlite)
        /\ connections' = r.connections
        /\ sqlite' = r.sqlite
        /\ ret' = r.ret
        /\ call' = ToolCall("connect_database", p, r.log)
        /\ UNCHANGED <<registry, tasks>>

(* the execute_query tool *)
ExecuteQuery(paths, queries) ==
    \E p \in paths, q \in queries, fault \in Faults :
      \E r \in {execute_query(connections, sqlite, p, q, fault)} :
        /\ WithinBounds(r.sqlite)
        /\ connections' = r.connections
        /\ sqlite' = r.sqlite
        /\ ret' = r.ret
        /\ call' = ToolCall("execute_query", p, r.log)
        /\ UNCHANGED <<registry, tasks>>

(* the describe_table tool *)
DescribeTable(paths, tables) ==
    \E p \in paths, t \in tables, fault \in Faults :
      \E r \in {describe_table(connections, sqlite, p, t, fault)} :
        /\ WithinBounds(r.sqlite)
        /\ connections' = r.connections
        /\ sqlite' = r.sqlite
        /\ ret' = r.ret
        /\ call' = ToolCall("describe_table", p, r.log)
        /\ UNCHANGED <<registry, tasks>>

(* the generate_sample_data tool *)
GenerateSampleData(paths, tables) ==
    \E p \in paths, t \in tables, n \in 0..MaxRows, fault \in Faults :
      \E r \in {generate_sample_data(connections, sqlite, p, t, n, fault)} :
        /\ WithinBounds(r.sqlite)
        /\ connections' = r.connections
        /\ sqlite' = r.sqlite
        /\ ret' = r.ret
        /\ call' = ToolCall("generate_sample_data", p, r.log)
        /\ UNCHANGED <<registry, tasks>>

(* the import_csv tool *)
ImportCsv(paths, tables, csvs) ==
    \E p \in paths, t \in tables, csv \in csvs, create \in BOOLEAN, fault \in Faults :
      \E r \in {import_csv(connections, sqlite, p, csv_in, csv, t, create, fault)} :
        /\ WithinBounds(r.sqlite)
        /\ connections' = r.connections
        /\ sqlite' = r.sqlite
        /\ ret' = r.ret
        /\ call' = ToolCall("import_csv", p, r.log)
        /\ UNCHANGED <<registry, tasks>>

(* the export_table_to_csv tool *)
ExportTableToCsv(paths, tables) ==
    \E p \in paths, t \in tables, writable \in BOOLEAN, fault \in Faults :
      \E r \in {export_table_to_csv(connections, sqlite, p, t, csv_out, writable, fault)} :
        /\ WithinBounds(r.sqlite)
        /\ connections' = r.connections
        /\ sqlite' = r.sqlite
        /\ ret' = r.ret
        /\ call' = ToolCall("export_table_to_csv", p, r.log)
        /\ UNCHANGED <<registry, tasks>>

NextDatabase ==
    \/ ConnectDatabase({path_a})
    \/ ExecuteQuery({path_a}, DbQueries)
    \/ DescribeTable({path_a}, {tbl_t})
    \/ GenerateSampleData({path_a}, {tbl_t})
    \/ ImportCsv({path_a}, {tbl_t}, CsvFiles)
    \/ ExportTableToCsv({path_a}, {tbl_t})

SpecDatabase == Init /\ [][NextDatabase]_vars

(***************************************************************************)
(* Properties of the database tools, under SpecDatabase                    *)
(***************************************************************************)

DatabaseTools ==
    {"connect_database", "execute_query", "describe_table",
     "generate_sample_data", "import_csv", "export_table_to_csv"}

(* the text a tool's except clause puts before str(e) *)
ErrorPrefix(op) ==
    IF op = "connect_database" THEN msg_error_connecting
    ELSE IF op = "execute_query" THEN msg_error_executing
    ELSE IF op = "describe_table" THEN msg_error_describing
    ELSE IF op = "generate_sample_data" THEN msg_error_generating
    ELSE IF op = "import_csv" THEN msg_error_importing
    ELSE msg_error_exporting

(* the positions of the log where a call to sqlite3 failed *)
FailedCalls(log) == {k \in 1..Len(log) : log[k].failed}

(* C14: a database tool returns text whatever sqlite3 does, never an       *)
(* exception; when a call to sqlite3 failed, the text is the tool's error  *)
(* text, and that call was the last one the tool made and the only one     *)
(* that failed: it was attempted once, and nothing was attempted after it. *)
C14_FailuresBecomeText ==
    call.op \in DatabaseTools
    => /\ ret.t = "str"
       /\ FailedCalls(call.log) # {}
          => /\ StartsAt(ret.s, 1, ErrorPrefix(call.op))
             /\ FailedCalls(call.log) = {Len(call.log)}

(* import_csv: the second INSERT failed after the first one went through;  *)
(* the tool returned the error text                                        *)
C14_Witness ==
    /\ call.op = "import_csv"
    /\ Len(call.log) >= 2
    /\ call.log[Len(call.log)].failed
    /\ call.log[Len(call.log)].stmt.kind = "insert"
    /\ call.log[Len(call.log) - 1].stmt.kind = "insert"
    /\ ret = PyStr(msg_error_importing \o msg_disk_io)

(* the tools that write to the database *)
WritingTools == {"execute_query", "import_csv", "generate_sample_data"}

(* the call returned its error text *)
ReturnedError(c, v) == v.t = "str" /\ StartsAt(v.s, 1, ErrorPrefix(c.op))

(* what the file at db_path holds once the connection cached for it        *)
(* commits: the working copy of its transaction in progress, else what is  *)
(* committed already                                                       *)
AtNextCommit(cache, sq, db_path) ==
    IF db_path \in DOMAIN cache
    THEN View(sq, cache[db_path])
    ELSE Content(sq, db_path)

(* the rows the calls of a log inserted *)
RECURSIVE InsertedRows(_)
InsertedRows(log) ==
    IF log = <<>> THEN 0
    ELSE (IF log[1].stmt.kind = "insert" /\ ~log[1].failed
          THEN log[1].stmt.rows ELSE 0)
         + InsertedRows(Tail(log))

(* the call ended with a commit that succeeded *)
Committed(c) ==
    /\ c.log # <<>>
    /\ c.log[Len(c.log)].stmt.kind = "commit"
    /\ ~c.log[Len(c.log)].failed

(* a step that is a failed call of a writing tool changes neither the      *)
(* committed content nor what the cached connection will commit next       *)
FailedCallFrame ==
    (call'.op \in WritingTools /\ ReturnedError(call', ret'))
    => /\ Content(sqlite', call'.db_path) = Content(sqlite, call'.db_path)
       /\ AtNextCommit(connections', sqlite', call'.db_path)
              = AtNextCommit(connections, sqlite, call'.db_path)

(* a call that commits right after a failed call on the same db_path adds  *)
(* to each table the rows it inserted itself, and no more                  *)
LaterCommitFrame ==
    (/\ call.op \in WritingTools /\ ReturnedError(call, ret)
     /\ call'.op \in WritingTools /\ ~ReturnedError(call', ret')
     /\ call'.db_path = call.db_path
     /\ Committed(call'))
    => \A t \in DOMAIN Content(sqlite, call.db_path) :
           Content(sqlite', call.db_path)[t]
               = Content(sqlite, call.db_path)[t] + InsertedRows(call'.log)

MaxTasks == 3

(* a tool whose lookup is awaited inside the loop of analyze_query_lineage *)
await_points_in_loop(op) == IF op = "analyze_query_lineage" THEN {"lookup"} ELSE {}

(* the statements of a tool body after which the coroutine awaits: the     *)
(* three bodies hold no await, no async for and no async with              *)
await_points(op) == {}

Request(op, table, field, source_tables, source_fields, join_condition, query) ==
    [op |-> op, table |-> table, field |-> field,
     source_tables |-> source_tables, source_fields |-> source_fields,
     join_condition |-> join_condition, query |-> query]

(* a task that has not run yet: no local variable is bound *)
Task(req) ==
    [req |-> req, pc |-> "start", status |-> "ready", turn |-> 0,
     analysis |-> PyNone, k |-> 0, lineage_found |-> <<>>,
     lineage |-> PyNone, ret |-> PyNone]

(* the return text of add_field_lineage *)
confirmation(target_table, target_field, source_tables, source_fields) ==
    LET pairs == zip(source_tables, source_fields)
    IN  msg_lineage_added \o target_table \o <<".">> \o target_field
        \o msg_from
        \o join(CommaSpace,
                [i \in 1..Len(pairs) |-> pairs[i][1] \o <<".">> \o pairs[i][2]])

(* the text trace_field_lineage builds from the record its lookup gave *)
trace_text(h, table, field, lineage) ==
    IF ~Truthy(h, lineage)
    THEN msg_no_lineage \o table \o <<".">> \o field
    ELSE
    LET rec   == h[lineage.addr].items
        st    == Elems(h, rec.source_tables)
        sf    == Elems(h, rec.source_fields)
        pairs == zip(st, sf)
    IN  msg_field_lineage \o table \o <<".">> \o field \o <<":", "\n">>
        \o msg_source_tables \o join(CommaSpace, st) \o <<"\n">>
        \o msg_source_fields \o join(CommaSpace, sf) \o <<"\n">>
        \o (IF rec.join_condition # <<>>
            THEN msg_join_condition \o rec.join_condition \o <<"\n">>
            ELSE <<>>)
        \o msg_data_flow
        \o join(<<>>,
                [i \in 1..Len(pairs) |->
                    <<" ", " ">> \o pairs[i][1] \o <<".">> \o pairs[i][2]
                    \o msg_arrow \o table \o <<".">> \o field \o <<"\n">>])

(* the text analyze_query_lineage builds from analysis and lineage_found *)
analysis_text(analysis, found) ==
    msg_query_analysis
    \o msg_tables_involved \o join(CommaSpace, analysis.tables) \o <<"\n">>
    \o msg_fields_selected \o join(CommaSpace, analysis.fields) \o <<"\n">>
    \o (IF found # <<>>
        THEN msg_tracked \o join(CommaSpace, found)
        ELSE msg_no_tracked)

(* the passes of `for table in tables: for field in fields:`, in order *)
Iterations(analysis) ==
    [n \in 1..(Len(analysis.tables) * Len(analysis.fields)) |->
        [table |-> analysis.tables[((n - 1) \div Len(analysis.fields)) + 1],
         field |-> analysis.fields[((n - 1) % Len(analysis.fields)) + 1]]]

(* the registry and a task between two statements *)
Frame(db, h, task) == [db |-> db, heap |-> h, task |-> task]

(* return of the coroutine: the task is done *)
Return(f, text) ==
    [f EXCEPT !.task.pc = "end", !.task.status = "done",
              !.task.ret = PyStr(text)]

(* get_lineage that takes the record out of the registry (dict.pop) *)
FieldTracker_get_lineage_pops(db, table, field) ==
    [db  |-> Restrict(db, DOMAIN db \ {KeyOf(table, field)}),
     ret |-> get_lineage(db, table, field)]

(* FieldTracker.get_lineage as a method call: what it returns and the      *)
(* lineage_db it leaves                                                    *)
FieldTracker_get_lineage(db, table, field) ==
    [db |-> db, ret |-> get_lineage(db, table, field)]

(* FieldTracker.get_all_lineage as a method call *)
FieldTracker_get_all_lineage(db) ==
    [db |-> db, ret |-> get_all_lineage(db)]

(* add_field_lineage, statement by statement *)
step_add_field_lineage(f) ==
    IF f.task.pc = "start"
    THEN LET r == add_field_lineage(f.db, f.heap, f.task.req.table,
                                    f.task.req.field, f.task.req.source_tables,
                                    f.task.req.source_fields,
                                    f.task.req.join_condition)
         IN  [f EXCEPT !.db = r.db, !.heap = r.heap, !.task.pc = "return"]
    ELSE Return(f, confirmation(f.task.req.table, f.task.req.field,
                                f.task.req.source_tables,
                                f.task.req.source_fields))

(* trace_field_lineage, statement by statement *)
step_trace_field_lineage(f) ==
    IF f.task.pc = "start"
    THEN LET got(r) == [f EXCEPT !.db = r.db, !.task.lineage = r.ret,
                                 !.task.pc = "return"]
         IN  got(FieldTracker_get_lineage(f.db, f.task.req.table,
                                          f.task.req.field))
    ELSE IF f.task.lineage.t = "raise"
    THEN Return(f, msg_error_tracing \o f.task.lineage.msg)
    ELSE Return(f, trace_text(f.heap, f.task.req.table, f.task.req.field,
                              f.task.lineage))

(* one pass of the inner loop of analyze_query_lineage *)
step_lookup(f) ==
    LET it    == Iterations(f.task.analysis)[f.task.k]
        clean == clean_field_of(it.field)
        next  == IF f.task.k < Len(Iterations(f.task.analysis))
                 THEN "lookup" ELSE "return"
        got(r) ==
            IF r.ret.t = "raise"
            THEN Return([f EXCEPT !.db = r.db], msg_error_analyzing \o r.ret.msg)
            ELSE [f EXCEPT !.db = r.db,
                           !.task.k = @ + 1, !.task.pc = next,
                           !.task.lineage = r.ret,
                           !.task.lineage_found =
                               IF Truthy(f.heap, r.ret)
                               THEN Append(@, it.table \o <<".">> \o clean)
                               ELSE @]
    IN  IF it.field = <<"*">>
        THEN [f EXCEPT !.task.k = @ + 1, !.task.pc = next]
        ELSE got(FieldTracker_get_lineage(f.db, it.table, clean))

(* analyze_query_lineage, statement by statement *)
step_analyze_query_lineage(f) ==
    IF f.task.pc = "start"
    THEN LET analysis == FieldTracker_analyze_query_lineage(f.task.req.query)
         IN  IF analysis.t = "raise"
             THEN Return(f, msg_error_analyzing \o analysis.msg)
             ELSE [f EXCEPT !.task.analysis = analysis, !.task.k = 1,
                            !.task.pc = IF Iterations(analysis) = <<>>
                                        THEN "return" ELSE "lookup"]
    ELSE IF f.task.pc = "lookup"
    THEN step_lookup(f)
    ELSE Return(f, analysis_text(f.task.analysis, f.task.lineage_found))

step(f) ==
    IF f.task.req.op = "add_field_lineage" THEN step_add_field_lineage(f)
    ELSE IF f.task.req.op = "trace_field_lineage" THEN step_trace_field_lineage(f)
    ELSE step_analyze_query_lineage(f)

(* the loop runs the task: statement after statement, until the coroutine  *)
(* returns or awaits after the statement it has executed                   *)
RECURSIVE run(_)
run(f) ==
    LET after(g) ==
            IF g.task.status = "done" THEN g
            ELSE IF f.task.pc \in await_points(f.task.req.op)
            THEN [g EXCEPT !.task.status = "suspended"]
            ELSE run(g)
    IN  after(step(f))

(* 'SELECT A FROM T JOIN U' *)
q_join ==
    <<"S", "E", "L", "E", "C", "T", " ", "A", " ", "F", "R", "O", "M", " ",
      "T", " ", "J", "O", "I", "N", " ", "U">>

Requests ==
    {Request("add_field_lineage", <<"T">>, <<"A">>, <<txt_line_items>>,
             <<txt_amount>>, txt_sum, <<>>),
     Request("add_field_lineage", <<"U">>, <<"A">>, <<txt_products>>,
             <<txt_price>>, <<>>, <<>>),
     Request("trace_field_lineage", <<"T">>, <<"A">>, <<>>, <<>>, <<>>, <<>>),
     Request("analyze_query_lineage", <<>>, <<>>, <<>>, <<>>, <<>>, q_join)}

(* a request arrives: the server makes a task of the tool's coroutine *)
Dispatch(requests) ==
    \E req \in requests :
        /\ Len(tasks) < MaxTasks
        /\ tasks' = Append(tasks, Task(req))
        /\ UNCHANGED <<registry, call, ret, database>>

Turns == {tasks[i].turn : i \in 1..Len(tasks)}

(* the loop takes a task that is not done and runs it *)
RunTask ==
    \E i \in 1..Len(tasks) :
        /\ tasks[i].status # "done"
        /\ \E g \in {run(Frame(lineage_db, heap,
                               IF tasks[i].turn = 0
                               THEN [tasks[i] EXCEPT !.turn = Max(Turns) + 1]
                               ELSE tasks[i]))} :
            /\ lineage_db' = g.db
            /\ heap' = g.heap
            /\ tasks' = [tasks EXCEPT ![i] = g.task]
            /\ ret' = g.task.ret
            /\ call' = Call(g.task.req.op, g.task.status, g.task.req.table,
                            g.task.req.field, g.task.req.source_tables,
                            g.task.req.source_fields,
                            g.task.req.join_condition, g.task.req.query)
            /\ latest' = IF g.db # lineage_db
                         THEN Put(latest,
                                  KeyOf(g.task.req.table, g.task.req.field),
                                  Declared(g.task.req.source_tables,
                                           g.task.req.source_fields,
                                           g.task.req.join_condition))
                         ELSE latest
            /\ UNCHANGED database

NextConcurrent ==
    \/ Dispatch(Requests)
    \/ RunTask

SpecConcurrent == Init /\ [][NextConcurrent]_vars

(***************************************************************************)
(* Properties of concurrent lineage calls, under SpecConcurrent            *)
(***************************************************************************)

(* the tasks the loop has run, in the order in which it first ran them *)
RunOrder ==
    [n \in 1..Cardinality(Turns \ {0}) |->
        CHOOSE i \in 1..Len(tasks) : tasks[i].turn = n]

(* the calls of the requests reqs made one after the other, each as a      *)
(* whole, on an empty registry: the registry at the end and what each call *)
(* returned                                                                *)
(* one call made as a whole after the calls that gave `before` *)
Whole(before, req) ==
    IF req.op = "add_field_lineage"
    THEN LET stored(r) == [db |-> r.db, heap |-> r.heap,
                           rets |-> Append(before.rets, r.ret)]
         IN  stored(add_field_lineage(before.db, before.heap, req.table,
                                      req.field, req.source_tables,
                                      req.source_fields, req.join_condition))
    ELSE IF req.op = "trace_field_lineage"
    THEN [before EXCEPT !.rets =
             Append(@, trace_field_lineage(before.db, before.heap,
                                           req.table, req.field))]
    ELSE [before EXCEPT !.rets =
             Append(@, analyze_query_lineage(before.db, before.heap,
                                             req.query))]

RECURSIVE Sequential(_, _)
Sequential(reqs, n) ==
    IF n = 0 THEN [db |-> EmptyMap, heap |-> EmptyMap, rets |-> <<>>]
    ELSE Whole(Sequential(reqs, n - 1), reqs[n])

SequentialRun ==
    Sequential([n \in 1..Len(RunOrder) |-> tasks[RunOrder[n]].req],
               Len(RunOrder))

(* C15: lineage calls dispatched concurrently run one after the other, each*)
(* to completion -- no task is ever left suspended inside its body, the    *)
(* registry is what the calls made one at a time (in the order the loop    *)
(* took them) leave behind, and every call returns what it returns in that *)
(* sequential order; so the tables, fields and tracked list of an          *)
(* analyze_query_lineage call come from one registry state.                *)
C15_CallsRunToCompletion ==
    /\ \A i \in 1..Len(tasks) : tasks[i].status \in {"ready", "done"}
    /\ \E seq \in {SequentialRun} :
        /\ RegistryView(lineage_db, heap) = RegistryView(seq.db, seq.heap)
        /\ \A n \in 1..Len(seq.rets) : tasks[RunOrder[n]].ret = seq.rets[n]

(* an analyze_query_lineage call that arrived before a declaration of T.A  *)
(* and ran after it, between the two declarations: it reports T.A alone    *)
C15_Witness ==
    /\ Len(tasks) = 3
    /\ tasks[1].req.op = "analyze_query_lineage"
    /\ tasks[2].req.op = "add_field_lineage"
    /\ tasks[3].req.op = "add_field_lineage"
    /\ tasks[3].req.table # tasks[2].req.table
    /\ tasks[2].turn = 1
    /\ tasks[1].turn = 2
    /\ tasks[3].turn = 3
    /\ tasks[1].ret = PyStr(analysis_text(tasks[1].analysis, <<<<"T", ".", "A">>>>))

(***************************************************************************)
(* The read operations as calls on the registry: each action takes the     *)
(* registry the operation leaves behind, whatever it is.  The two tools    *)
(* run as their coroutines do, from the first statement to the return.     *)
(***************************************************************************)

(* the pairs looked up: the declared ones and one that never is declared *)
ReadPairs == AnalyzerPairs \cup {<<txt_orders, txt_amount>>}

ReadQueries == {q_join, q_qualified, q_star, q_not_sql, <<>>}

(* field_tracker.get_lineage(table, field) *)
ReadGetLineage(pairs) ==
    \E p \in pairs :
      \E r \in {FieldTracker_get_lineage(lineage_db, p[1], p[2])} :
        /\ lineage_db' = r.db
        /\ ret' = r.ret
        /\ call' = Call("get_lineage", "", p[1], p[2], <<>>, <<>>, <<>>, <<>>)
        /\ heap' = Collect(heap, r.db, <<>>, r.ret)
        /\ UNCHANGED <<latest, database, tasks>>

(* field_tracker.get_all_lineage() *)
ReadGetAllLineage ==
    \E r \in {FieldTracker_get_all_lineage(lineage_db)} :
        /\ lineage_db' = r.db
        /\ ret' = r.ret
        /\ call' = Call("get_all_lineage", "", <<>>, <<>>, <<>>, <<>>, <<>>, <<>>)
        /\ heap' = Collect(heap, r.db, <<>>, r.ret)
        /\ UNCHANGED <<latest, database, tasks>>

(* field_tracker.analyze_query_lineage(query): the method does not refer   *)
(* to self.lineage_db                                                      *)
ReadAnalyze(queries) ==
    \E q \in queries :
      \E v \in {FieldTracker_analyze_query_lineage(q)} :
        /\ ret' = v
        /\ call' = Call("analyze", "", <<>>, <<>>, <<>>, <<>>, <<>>, q)
        /\ heap' = Collect(heap, lineage_db, <<>>, v)
        /\ UNCHANGED <<lineage_db, latest, database, tasks>>

(* the trace_field_lineage tool *)
ReadTraceFieldLineage(pairs) ==
    \E p \in pairs :
      \E g \in {run(Frame(lineage_db, heap,
                          Task(Request("trace_field_lineage", p[1], p[2],
                                       <<>>, <<>>, <<>>, <<>>))))} :
        /\ lineage_db' = g.db
        /\ ret' = g.task.ret
        /\ call' = Call("trace_field_lineage", "", p[1], p[2], <<>>, <<>>, <<>>, <<>>)
        /\ heap' = Collect(g.heap, g.db, <<>>, g.task.ret)
        /\ UNCHANGED <<latest, database, tasks>>

(* the analyze_query_lineage tool *)
ReadAnalyzeQueryLineage(queries) ==
    \E q \in queries :
      \E g \in {run(Frame(lineage_db, heap,
                          Task(Request("analyze_query_lineage", <<>>, <<>>,
                                       <<>>, <<>>, <<>>, q))))} :
        /\ lineage_db' = g.db
        /\ ret' = g.task.ret
        /\ call' = Call("analyze_query_lineage", "", <<>>, <<>>, <<>>, <<>>, <<>>, q)
        /\ heap' = Collect(g.heap, g.db, <<>>, g.task.ret)
        /\ UNCHANGED <<latest, database, tasks>>

NextReads ==
    \/ AddFieldLineage(AnalyzerPairs, {<<txt_line_items>>}, {<<txt_amount>>},
                       JoinConditions)
    \/ ClearLineage
    \/ ReadGetLineage(ReadPairs)
    \/ ReadGetAllLineage
    \/ ReadAnalyze(ReadQueries)
    \/ ReadTraceFieldLineage(ReadPairs)
    \/ ReadAnalyzeQueryLineage(ReadQueries)

SpecReads == Init /\ [][NextReads]_vars

(***************************************************************************)
(* Properties of the read operations, under SpecReads                      *)
(***************************************************************************)

ReadOperations ==
    {"get_lineage", "get_all_lineage", "analyze", "trace_field_lineage",
     "analyze_query_lineage"}

(* C22: a read operation -- get_lineage, get_all_lineage, analyze,         *)
(* trace_field_lineage, analyze_query_lineage -- leaves the registry as it *)
(* found it: the same keys, bound to the same record objects, and every    *)
(* record showing the same lists and join condition.                       *)
C22_ReadsLeaveRegistry ==
    [][call'.op \in ReadOperations
       => /\ lineage_db' = lineage_db
          /\ RegistryView(lineage_db', heap') = RegistryView(lineage_db, heap)]_vars

(* analyze_query_lineage has found the records of T.A and U.A, which are   *)
(* still in the registry                                                   *)
C22_Witness ==
    /\ call.op = "analyze_query_lineage"
    /\ call.query = q_join
    /\ {<<"T", ".", "A">>, <<"U", ".", "A">>} \subseteq DOMAIN lineage_db
    /\ ret = PyStr(analysis_text(FieldTracker_analyze_query_lineage(q_join),
                                 <<<<"T", ".", "A">>, <<"U", ".", "A">>>>))

====
